---- MODULE Spec2Model ----
(***************************************************************************)
(* Position synchronisation engine of fund-manage.                         *)
(*                                                                         *)
(* The module models the client-side orchestrator PositionSyncService      *)
(* (services/sync/positionSyncService.ts): the Change Log, the status      *)
(* machine, and the upload / download / verify pass with its retry loop    *)
(* and its deadline.  One step of the model is one macrotask of the        *)
(* JavaScript event loop: a handler runs from the event that wakes it (a   *)
(* call from the UI, a response, a timer) up to its next real wait (a      *)
(* request in flight, a sleep).  Awaits that only yield to the microtask   *)
(* queue do not let any other event in and stay inside the step.           *)
(*                                                                         *)
(* The server that answers the requests is the environment of this         *)
(* specification: the answers it can give are those of                     *)
(* backend/controllers/positionSyncController.js (syncUserData) and of the *)
(* data controller (getUserData), and transport errors.                    *)
(* Of the stores of the client the module keeps what the download phase   *)
(* writes: the fund and stock holdings, the account groups and the         *)
(* settings (variable local).  Quotes are not part of the state.           *)
(*                                                                         *)
(* Spec is the orchestrator under every call of the user interface, with   *)
(* passes that settle before their deadline.  DeadlineSpec lets the        *)
(* deadline of sync() expire.                                              *)
(***************************************************************************)
EXTENDS Integers, Sequences, FiniteSets, TLC

(***************************************************************************)
(* Bounds of the model                                                     *)
(***************************************************************************)
MaxTime == 2      \* the clock Date.now() takes the values 1..MaxTime
MaxOps == 3       \* calls the user interface makes to the service and the auth API
MaxLate == 1      \* passes that run on after the deadline of their sync() expired

Ids == {"h1"}

\* the n-th generated id (`temp_${Date.now()}_${random}`)
TempId(n) ==
  CASE n = 1 -> "temp_1"
    [] n = 2 -> "temp_2"
    [] n = 3 -> "temp_3"
    [] n = 4 -> "temp_4"
    [] OTHER -> "temp_5"

(***************************************************************************)
(* SyncOperationType and SyncStatus                                        *)
(***************************************************************************)
CREATE == "CREATE"
UPDATE == "UPDATE"
DELETE == "DELETE"
SyncOperationType == {CREATE, UPDATE, DELETE}

IDLE == "idle"
SYNCING == "syncing"
SUCCESS == "success"
ERROR == "error"
CONFLICT == "conflict"
SyncStatus == {IDLE, SYNCING, SUCCESS, ERROR, CONFLICT}

(***************************************************************************)
(* JavaScript objects.  An object is the sequence of its <<key, value>>    *)
(* pairs in insertion order, which is the order JSON.stringify and the     *)
(* spread operator follow.  Values of the keys in NumericKeys are numbers, *)
(* all other values are strings.                                           *)
(***************************************************************************)
NumericKeys == {"share", "updatedAt", "addTime", "createdAt"}

HasKey(obj, k) == \E i \in 1..Len(obj) : obj[i][1] = k

Get(obj, k) == obj[CHOOSE i \in 1..Len(obj) : obj[i][1] = k][2]

\* obj[k] as a list: empty when obj has no property k (undefined)
Field(obj, k) == IF HasKey(obj, k) THEN <<Get(obj, k)>> ELSE <<>>

\* { ...a, ...b }
Spread(a, b) ==
  [i \in 1..Len(a) |->
     IF HasKey(b, a[i][1]) THEN <<a[i][1], Get(b, a[i][1])>> ELSE a[i]]
  \o SelectSeq(b, LAMBDA q : ~HasKey(a, q[1]))

(***************************************************************************)
(* calculateChecksum: JSON.stringify, then hash*33 + char from 5381, then  *)
(* >>> 0.  Strings are sequences of UTF-16 code units.  The hash is kept   *)
(* as the pair <<high 16 bits, low 16 bits>> of the unsigned 32-bit value  *)
(* whose hexadecimal digits the code returns.                              *)
(***************************************************************************)
Codes(s) ==
  CASE s = "id" -> <<105, 100>>
    [] s = "fundCode" -> <<102, 117, 110, 100, 67, 111, 100, 101>>
    [] s = "share" -> <<115, 104, 97, 114, 101>>
    [] s = "updatedAt" -> <<117, 112, 100, 97, 116, 101, 100, 65, 116>>
    [] s = "addTime" -> <<97, 100, 100, 84, 105, 109, 101>>
    [] s = "createdAt" -> <<99, 114, 101, 97, 116, 101, 100, 65, 116>>
    [] s = "h1" -> <<104, 49>>
    [] s = "h2" -> <<104, 50>>
    [] s = "temp_1" -> <<116, 101, 109, 112, 95, 49>>
    [] s = "temp_2" -> <<116, 101, 109, 112, 95, 50>>
    [] s = "temp_3" -> <<116, 101, 109, 112, 95, 51>>
    [] s = "temp_4" -> <<116, 101, 109, 112, 95, 52>>
    [] s = "temp_5" -> <<116, 101, 109, 112, 95, 53>>
    [] s = "000001" -> <<48, 48, 48, 48, 48, 49>>
    [] s = "fund_" -> <<102, 117, 110, 100, 95>>
    [] s = "stock_" -> <<115, 116, 111, 99, 107, 95>>
    [] s = "stockCode" -> <<115, 116, 111, 99, 107, 67, 111, 100, 101>>
    [] s = "notes" -> <<110, 111, 116, 101, 115>>
    [] s = "groupId" -> <<103, 114, 111, 117, 112, 73, 100>>
    [] s = "g1" -> <<103, 49>>
    [] s = "uuid_1" -> <<117, 117, 105, 100, 95, 49>>
    [] s = "uuid_2" -> <<117, 117, 105, 100, 95, 50>>
    [] OTHER -> <<>>

RECURSIVE DigitsOf(_)
DigitsOf(n) ==
  IF n < 10 THEN <<48 + n>> ELSE DigitsOf(n \div 10) \o <<48 + (n % 10)>>

JsonValue(k, v) ==
  IF k \in NumericKeys THEN DigitsOf(v) ELSE <<34>> \o Codes(v) \o <<34>>

JsonPair(q) == <<34>> \o Codes(q[1]) \o <<34, 58>> \o JsonValue(q[1], q[2])

RECURSIVE JsonPairs(_)
JsonPairs(obj) ==
  IF obj = <<>> THEN <<>>
  ELSE JsonPair(Head(obj))
       \o (IF Len(obj) > 1 THEN <<44>> \o JsonPairs(Tail(obj)) ELSE <<>>)

JSONstringify(obj) == <<123>> \o JsonPairs(obj) \o <<125>>

HashStep(h, c) ==
  LET lo == h[2] * 33 + c
  IN  <<(h[1] * 33 + (lo \div 65536)) % 65536, lo % 65536>>

Limb == 0..65535

\* the loop over the characters, split in halves: the hash of a string from h
\* is the hash of its second half from the hash of its first half
HashFrom[h \in Limb \X Limb, str \in Seq(Limb)] ==
  IF Len(str) = 0 THEN h
  ELSE IF Len(str) = 1 THEN HashStep(h, str[1])
  ELSE HashFrom[HashFrom[h, SubSeq(str, 1, Len(str) \div 2)],
                SubSeq(str, Len(str) \div 2 + 1, Len(str))]

calculateChecksum(data) == HashFrom[<<0, 5381>>, JSONstringify(data)]

(***************************************************************************)
(* The Change Log                                                          *)
(***************************************************************************)
PositionChange(cid, op, time, payload) ==
  [id |-> cid, operation |-> op, timestamp |-> time,
   data |-> payload, checksum |-> calculateChecksum(payload)]

findIndex(changes, id) ==
  IF \E i \in 1..Len(changes) : changes[i].id = id
  THEN CHOOSE i \in 1..Len(changes) :
         /\ changes[i].id = id
         /\ \A j \in 1..(i - 1) : changes[j].id # id
  ELSE 0

\* a recordChange that never looks for a pending entry of the same id
recordChangeAppending(changes, operation, data, id, t) ==
  Append(changes, PositionChange(id, operation, t, data))

\* a recordChange that merges the payloads and keeps the checksum it had
recordChangeStaleChecksum(changes, operation, data, id, t) ==
  LET existingIndex == findIndex(changes, id)
      existing == changes[existingIndex]
  IN  IF existingIndex > 0
      THEN IF operation = DELETE
           THEN [changes EXCEPT ![existingIndex] =
                   PositionChange(id, operation, t, data)]
           ELSE [changes EXCEPT ![existingIndex] =
                   [existing EXCEPT !.data = Spread(existing.data, data),
                                    !.timestamp = t]]
      ELSE Append(changes, PositionChange(id, operation, t, data))

\* a recordChange that merges a DELETE into the pending entry as it merges
\* the other operations
recordChangeMergingDelete(changes, operation, data, id, t) ==
  LET existingIndex == findIndex(changes, id)
      existing == changes[existingIndex]
  IN  IF existingIndex > 0
      THEN [changes EXCEPT ![existingIndex] =
              [id |-> existing.id,
               operation |-> operation,
               data |-> Spread(existing.data, data),
               timestamp |-> t,
               checksum |-> calculateChecksum(Spread(existing.data, data))]]
      ELSE Append(changes, PositionChange(id, operation, t, data))

\* a recordChange whose merged entry takes the operation of the newer call
recordChangeRetagging(changes, operation, data, id, t) ==
  LET existingIndex == findIndex(changes, id)
      existing == changes[existingIndex]
  IN  IF existingIndex > 0
      THEN IF operation = DELETE
           THEN [changes EXCEPT ![existingIndex] =
                   PositionChange(id, operation, t, data)]
           ELSE [changes EXCEPT ![existingIndex] =
                   [id |-> existing.id,
                    operation |-> operation,
                    data |-> Spread(existing.data, data),
                    timestamp |-> t,
                    checksum |-> calculateChecksum(Spread(existing.data, data))]]
      ELSE Append(changes, PositionChange(id, operation, t, data))

\* recordChange, given the id the change gets (the caller's, or a generated one)
recordChange(changes, operation, data, id, t) ==
  LET existingIndex == findIndex(changes, id)
      existing == changes[existingIndex]
  IN  IF existingIndex > 0
      THEN IF operation = DELETE
           THEN [changes EXCEPT ![existingIndex] =
                   PositionChange(id, operation, t, data)]
           ELSE [changes EXCEPT ![existingIndex] =
                   [id |-> existing.id,
                    operation |-> existing.operation,
                    data |-> Spread(existing.data, data),
                    timestamp |-> t,
                    checksum |-> calculateChecksum(Spread(existing.data, data))]]
      ELSE Append(changes, PositionChange(id, operation, t, data))

RemoveAt(s, i) == SubSeq(s, 1, i - 1) \o SubSeq(s, i + 1, Len(s))

Strategies == {"local", "server", "merge"}

\* a resolveConflict whose 'server' case refreshes the timestamp as the
\* other cases do
resolveConflictListKeeping(changes, conflictId, strategy, t) ==
  LET conflictIndex == findIndex(changes, conflictId)
  IN  IF conflictIndex = 0 THEN changes
      ELSE IF strategy \in Strategies
      THEN [changes EXCEPT ![conflictIndex].timestamp = t]
      ELSE changes

\* resolveConflict: the pending list it leaves; the switch has a case for
\* each of the three strategies and no default
resolveConflictList(changes, conflictId, strategy, t) ==
  LET conflictIndex == findIndex(changes, conflictId)
  IN  IF conflictIndex = 0 THEN changes
      ELSE IF strategy = "server" THEN RemoveAt(changes, conflictIndex)
      ELSE IF strategy \in {"local", "merge"}
      THEN [changes EXCEPT ![conflictIndex].timestamp = t]
      ELSE changes

\* resolveConflict: what it returns
resolveConflictReturns(changes, conflictId) == findIndex(changes, conflictId) # 0

(***************************************************************************)
(* Conflict detection of the client                                        *)
(***************************************************************************)
\* new Map(list.map(h => [h.id, h])).get(id): the last record with that id
MapHas(list, id) == \E i \in 1..Len(list) : Get(list[i], "id") = id

MapGet(list, id) ==
  list[CHOOSE i \in 1..Len(list) :
         /\ Get(list[i], "id") = id
         /\ \A j \in (i + 1)..Len(list) : Get(list[j], "id") # id]

Truthy(obj, k) ==
  /\ HasKey(obj, k)
  /\ IF k \in NumericKeys THEN Get(obj, k) # 0 ELSE Get(obj, k) # ""

identifyConflictingFields(localData, serverData) ==
  LET differs(q) ==
        /\ HasKey(serverData, q[1])
        /\ JsonValue(q[1], q[2]) # JsonValue(q[1], Get(serverData, q[1]))
      hits == SelectSeq(localData, differs)
  IN  [i \in 1..Len(hits) |-> hits[i][1]]

NoServerData == <<>>

\* the server record the loop of detectConflicts finds for a change
ServerItem(change, fundHoldings, stockHoldings) ==
  IF MapHas(fundHoldings, change.id)
  THEN MapGet(fundHoldings, change.id)
  ELSE MapGet(stockHoldings, change.id)

\* serverItem.updatedAt || serverItem.addTime || 0
ServerTime(serverItem) ==
  IF Truthy(serverItem, "updatedAt") THEN Get(serverItem, "updatedAt")
  ELSE IF Truthy(serverItem, "addTime") THEN Get(serverItem, "addTime")
  ELSE 0

\* the conflict pushed for a change the server has a newer record of
StaleConflict(change, serverItem) ==
  [id |-> change.id, localData |-> change.data,
   serverData |-> serverItem, resolution |-> "manual",
   conflictingFields |-> identifyConflictingFields(change.data, serverItem),
   serverTimestamp |-> ServerTime(serverItem),
   localTimestamp |-> change.timestamp,
   operation |-> change.operation]

\* the conflict pushed for an UPDATE of a record the server does not have
MissingConflict(change) ==
  [id |-> change.id, localData |-> change.data,
   serverData |-> NoServerData, resolution |-> "manual",
   conflictingFields |-> <<"id">>,
   serverTimestamp |-> 0,
   localTimestamp |-> 0,
   operation |-> ""]

\* a loop body that does not compare the times
changeConflictsUntimed(change, fundHoldings, stockHoldings) ==
  LET found == MapHas(fundHoldings, change.id) \/ MapHas(stockHoldings, change.id)
  IN  IF found /\ change.operation # CREATE
      THEN <<StaleConflict(change, ServerItem(change, fundHoldings, stockHoldings))>>
      ELSE IF ~found /\ change.operation = UPDATE
      THEN <<MissingConflict(change)>>
      ELSE <<>>

\* a loop body without the branch for records the server does not have
changeConflictsFoundOnly(change, fundHoldings, stockHoldings) ==
  LET found == MapHas(fundHoldings, change.id) \/ MapHas(stockHoldings, change.id)
      serverItem == ServerItem(change, fundHoldings, stockHoldings)
  IN  IF found /\ change.operation # CREATE /\ ServerTime(serverItem) > change.timestamp
      THEN <<StaleConflict(change, serverItem)>>
      ELSE <<>>

\* the body of the loop of detectConflicts: the conflicts pushed for a change
changeConflicts(change, fundHoldings, stockHoldings) ==
  LET found == MapHas(fundHoldings, change.id) \/ MapHas(stockHoldings, change.id)
      serverItem == ServerItem(change, fundHoldings, stockHoldings)
  IN  IF found /\ change.operation # CREATE
      THEN IF ServerTime(serverItem) > change.timestamp
           THEN <<StaleConflict(change, serverItem)>>
           ELSE <<>>
      ELSE IF ~found /\ change.operation = UPDATE
      THEN <<MissingConflict(change)>>
      ELSE <<>>

RECURSIVE detectConflicts(_, _, _)
detectConflicts(localChanges, fundHoldings, stockHoldings) ==
  IF localChanges = <<>> THEN <<>>
  ELSE changeConflicts(Head(localChanges), fundHoldings, stockHoldings)
       \o detectConflicts(Tail(localChanges), fundHoldings, stockHoldings)

ConflictIds(conflicts) == [i \in 1..Len(conflicts) |-> conflicts[i].id]

(***************************************************************************)
(* The local stores and what the download phase does to them               *)
(***************************************************************************)
\* the keys of obj among keys, in the order of keys ({k: obj.k, ...} without
\* the properties that are undefined)
Pick(obj, keys) ==
  LET present == SelectSeq(keys, LAMBDA k : HasKey(obj, k))
  IN  [i \in 1..Len(present) |-> <<present[i], Get(obj, present[i])>>]

\* the values of new Map(list.map(item => [item.id, item])), in its order
MapValues(list) ==
  LET firsts == SelectSeq([i \in 1..Len(list) |-> i],
                          LAMBDA i : \A j \in 1..(i - 1) :
                                       Get(list[j], "id") # Get(list[i], "id"))
  IN  [k \in 1..Len(firsts) |-> MapGet(list, Get(list[firsts[k]], "id"))]

\* a calculateDiff that updates every record both sides have
calculateDiffAlways(localData, serverData) ==
  LET locals == MapValues(localData)
      servers == MapValues(serverData)
      stale == SelectSeq(locals, LAMBDA item : ~MapHas(serverData, Get(item, "id")))
  IN  [toCreate |-> SelectSeq(servers, LAMBDA item : ~MapHas(localData, Get(item, "id"))),
       toUpdate |-> SelectSeq(servers, LAMBDA item : MapHas(localData, Get(item, "id"))),
       toDelete |-> [i \in 1..Len(stale) |-> Get(stale[i], "id")]]

\* calculateDiff(localData, serverData, 'id')
calculateDiff(localData, serverData) ==
  LET locals == MapValues(localData)
      servers == MapValues(serverData)
      stale == SelectSeq(locals, LAMBDA item : ~MapHas(serverData, Get(item, "id")))
  IN  [toCreate |-> SelectSeq(servers, LAMBDA item : ~MapHas(localData, Get(item, "id"))),
       toUpdate |-> SelectSeq(servers, LAMBDA item :
                      /\ MapHas(localData, Get(item, "id"))
                      /\ calculateChecksum(MapGet(localData, Get(item, "id")))
                           # calculateChecksum(item)),
       toDelete |-> [i \in 1..Len(stale) |-> Get(stale[i], "id")]]

\* the ids uuidv4() can return; an id is drawn that no stored holding has
Uuids == <<"uuid_1", "uuid_2">>

uuidv4(holdings) ==
  Uuids[CHOOSE i \in 1..Len(Uuids) :
          /\ ~MapHas(holdings, Uuids[i])
          /\ \A j \in 1..(i - 1) : MapHas(holdings, Uuids[j])]

\* portfolioService on the table db.holdings
deleteHolding(holdings, id) ==
  SelectSeq(holdings, LAMBDA h : Get(h, "id") # id)

addHolding(holdings, holding) ==
  Append(holdings, Spread(holding, <<<<"id", uuidv4(holdings)>>>>))

\* Table.update: an undefined value deletes the property
updateHolding(holdings, id, updates, undefinedKeys) ==
  [i \in 1..Len(holdings) |->
     IF Get(holdings[i], "id") = id
     THEN Spread(SelectSeq(holdings[i], LAMBDA q : q[1] \notin undefinedKeys), updates)
     ELSE holdings[i]]

RECURSIVE DeleteAll(_, _)
DeleteAll(holdings, toDelete) ==
  IF toDelete = <<>> THEN holdings
  ELSE DeleteAll(deleteHolding(holdings, Head(toDelete)), Tail(toDelete))

\* the holding batchProcessFundHoldings / batchProcessStockHoldings adds
NewHolding(holding, keys, t) ==
  Pick(holding, keys)
  \o <<<<"addTime", IF Truthy(holding, "addTime") THEN Get(holding, "addTime") ELSE t>>,
       <<"notes", IF Truthy(holding, "notes") THEN Get(holding, "notes") ELSE "">>,
       <<"groupId", IF Truthy(holding, "groupId") THEN Get(holding, "groupId") ELSE "">>>>

RECURSIVE CreateAll(_, _, _, _)
CreateAll(holdings, toCreate, keys, t) ==
  IF toCreate = <<>> THEN holdings
  ELSE CreateAll(addHolding(holdings, NewHolding(Head(toCreate), keys, t)),
                 Tail(toCreate), keys, t)

RECURSIVE UpdateAll(_, _, _)
UpdateAll(holdings, toUpdate, keys) ==
  IF toUpdate = <<>> THEN holdings
  ELSE LET holding == Head(toUpdate)
           next == IF Truthy(holding, "id")
                   THEN updateHolding(holdings, Get(holding, "id"), Pick(holding, keys),
                                      {k \in {keys[i] : i \in 1..Len(keys)} :
                                         ~HasKey(holding, k)})
                   ELSE holdings
       IN  UpdateAll(next, Tail(toUpdate), keys)

\* batchProcessFundHoldings and batchProcessStockHoldings: deletes, creates,
\* updates, then the store reloads the table
batchProcessHoldings(holdings, diff, createKeys, updateKeys, t) ==
  UpdateAll(CreateAll(DeleteAll(holdings, diff.toDelete), diff.toCreate, createKeys, t),
            diff.toUpdate, updateKeys)

batchProcessFundHoldings(holdings, diff, t) ==
  batchProcessHoldings(holdings, diff,
                       <<"fundCode", "fundName", "share", "costPrice">>,
                       <<"share", "costPrice", "notes", "groupId">>, t)

batchProcessStockHoldings(holdings, diff, t) ==
  batchProcessHoldings(holdings, diff,
                       <<"stockCode", "stockName", "quantity", "costPrice">>,
                       <<"quantity", "costPrice", "notes", "groupId">>, t)

\* the ids crypto.randomUUID() can return for a group
GroupUuids == <<"group_1", "group_2">>

\* the group reconciliation of the download: groups the server lacks are
\* deleted, a group is added for every server group the store did not have
RECURSIVE AddGroups(_, _)
AddGroups(groups, n) ==
  IF n = 0 THEN groups
  ELSE AddGroups(groups \cup
                   {GroupUuids[CHOOSE i \in 1..Len(GroupUuids) :
                       /\ GroupUuids[i] \notin groups
                       /\ \A j \in 1..(i - 1) : GroupUuids[j] \in groups]},
                 n - 1)

reconcileGroups(groups, accountGroups) ==
  LET serverIds == {accountGroups[i] : i \in 1..Len(accountGroups)}
      missing == {i \in 1..Len(accountGroups) : accountGroups[i] \notin groups}
  IN  AddGroups(groups \cap serverIds, Cardinality(missing))

\* useGroupStore.deleteGroup: the group leaves the list of the store
storeDeleteGroup(loc, id) == [loc EXCEPT !.groups = @ \ {id}]

\* GroupService.deleteGroup: groupId becomes undefined in the rows of the
\* table holdings that have it, then the group is deleted
serviceDeleteGroup(loc, id) ==
  [loc EXCEPT
     !.holdings = [i \in 1..Len(@) |->
                     IF Field(@[i], "groupId") = <<id>>
                     THEN SelectSeq(@[i], LAMBDA q : q[1] # "groupId")
                     ELSE @[i]],
     !.groups = @ \ {id}]

\* the part of downloadAndApplyChanges after the conflict test
applySnapshot(loc, body, t) ==
  [holdings |->
     LET diff == calculateDiff(loc.holdings, body.fundHoldings)
     IN  IF diff.toCreate # <<>> \/ diff.toUpdate # <<>> \/ diff.toDelete # <<>>
         THEN batchProcessFundHoldings(loc.holdings, diff, t)
         ELSE loc.holdings,
   stockHoldings |->
     LET diff == calculateDiff(loc.stockHoldings, body.stockHoldings)
     IN  IF diff.toCreate # <<>> \/ diff.toUpdate # <<>> \/ diff.toDelete # <<>>
         THEN batchProcessStockHoldings(loc.stockHoldings, diff, t)
         ELSE loc.stockHoldings,
   groups |-> IF body.hasGroups THEN reconcileGroups(loc.groups, body.accountGroups)
              ELSE loc.groups,
   settings |-> IF body.hasSettings THEN Spread(loc.settings, body.settings)
                ELSE loc.settings]

(***************************************************************************)
(* Errors a request can throw, and their classification                    *)
(***************************************************************************)
NoResponse == 0

NotLoggedInMessage == "not logged in or login expired"

NoError == [status |-> -1, message |-> ""]

NetworkError == [status |-> NoResponse, message |-> "Network Error"]

NotLoggedInError == [status |-> NoResponse, message |-> NotLoggedInMessage]

HttpError(status) == [status |-> status, message |-> "Request failed"]

HttpErrorStatuses == {401, 404, 503}

RequestErrors == {NetworkError} \cup {HttpError(s) : s \in HttpErrorStatuses}

retryableStatuses == {429, 500, 502, 503, 504}

\* a classification under which every error is transient
isRetryableErrorAlways(error) == TRUE

isRetryableError(error) ==
  IF error.status = NoResponse THEN TRUE
  ELSE error.status \in retryableStatuses

isAuthError(error) ==
  error.status = 401 \/ error.message = NotLoggedInMessage

maxRetries == 3

retryDelay0 == 1000

(***************************************************************************)
(* What the server does with the changes of an upload                      *)
(***************************************************************************)
StartsWith(id, prefix) ==
  /\ Len(Codes(id)) >= Len(Codes(prefix))
  /\ SubSeq(Codes(id), 1, Len(Codes(prefix))) = Codes(prefix)

IsFundChange(c) == Truthy(c.data, "fundCode") \/ StartsWith(c.id, "fund_")

IsStockChange(c) == Truthy(c.data, "stockCode") \/ StartsWith(c.id, "stock_")

\* ids for which the server's detectConflicts can report a conflict:
\* the change is in a partition and is not a CREATE
ConflictCandidates(changes) ==
  {changes[i].id : i \in {j \in 1..Len(changes) :
       /\ changes[j].operation # CREATE
       /\ IsFundChange(changes[j]) \/ IsStockChange(changes[j])}}

\* holdingsMap.set(id, record): the record replaces the one of that id, or is added
MapSet(list, id, record) ==
  IF MapHas(list, id)
  THEN [i \in 1..Len(list) |-> IF Get(list[i], "id") = id THEN record ELSE list[i]]
  ELSE Append(list, record)

\* the record applyChanges writes for a change of a new id
CreatedRecord(change) ==
  Spread(Spread(change.data, <<<<"id", change.id>>>>),
         <<<<"createdAt", change.timestamp>>, <<"updatedAt", change.timestamp>>>>)

\* the record applyChanges writes for an UPDATE of an existing record
UpdatedRecord(existing, change) ==
  Spread(Spread(Spread(existing, change.data), <<<<"id", change.id>>>>),
         <<<<"updatedAt", change.timestamp>>>>)

\* an applyChanges whose CREATE overwrites
applyChangeOverwriting(holdingsMap, change) ==
  IF change.operation = CREATE
  THEN MapSet(holdingsMap, change.id, CreatedRecord(change))
  ELSE IF change.operation = UPDATE
  THEN IF MapHas(holdingsMap, change.id)
       THEN LET existing == MapGet(holdingsMap, change.id)
            IN  IF ~Truthy(existing, "updatedAt")
                   \/ change.timestamp > Get(existing, "updatedAt")
                THEN MapSet(holdingsMap, change.id, UpdatedRecord(existing, change))
                ELSE holdingsMap
       ELSE MapSet(holdingsMap, change.id, CreatedRecord(change))
  ELSE SelectSeq(holdingsMap, LAMBDA h : Get(h, "id") # change.id)

\* an applyChanges whose UPDATE does not look at updatedAt
applyChangeUnstamped(holdingsMap, change) ==
  IF change.operation = CREATE
  THEN IF ~MapHas(holdingsMap, change.id)
       THEN MapSet(holdingsMap, change.id, CreatedRecord(change))
       ELSE holdingsMap
  ELSE IF change.operation = UPDATE
  THEN IF MapHas(holdingsMap, change.id)
       THEN MapSet(holdingsMap, change.id,
                   UpdatedRecord(MapGet(holdingsMap, change.id), change))
       ELSE MapSet(holdingsMap, change.id, CreatedRecord(change))
  ELSE SelectSeq(holdingsMap, LAMBDA h : Get(h, "id") # change.id)

\* one turn of the loop of applyChanges
applyChange(holdingsMap, change) ==
  IF change.operation = CREATE
  THEN IF ~MapHas(holdingsMap, change.id)
       THEN MapSet(holdingsMap, change.id, CreatedRecord(change))
       ELSE holdingsMap
  ELSE IF change.operation = UPDATE
  THEN IF MapHas(holdingsMap, change.id)
       THEN LET existing == MapGet(holdingsMap, change.id)
            IN  IF ~Truthy(existing, "updatedAt")
                   \/ change.timestamp > Get(existing, "updatedAt")
                THEN MapSet(holdingsMap, change.id, UpdatedRecord(existing, change))
                ELSE holdingsMap
       ELSE MapSet(holdingsMap, change.id, CreatedRecord(change))
  ELSE SelectSeq(holdingsMap, LAMBDA h : Get(h, "id") # change.id)

RECURSIVE applyChanges(_, _)
applyChanges(holdings, changes) ==
  IF changes = <<>> THEN MapValues(holdings)
  ELSE applyChanges(applyChange(MapValues(holdings), Head(changes)), Tail(changes))

\* serverItem.updatedAt || serverItem.createdAt || 0
ServerRecordTime(serverItem) ==
  IF Truthy(serverItem, "updatedAt") THEN Get(serverItem, "updatedAt")
  ELSE IF Truthy(serverItem, "createdAt") THEN Get(serverItem, "createdAt")
  ELSE 0

\* detectConflicts of the controller
RECURSIVE serverDetectConflicts(_, _)
serverDetectConflicts(serverHoldings, changes) ==
  IF changes = <<>> THEN <<>>
  ELSE LET change == Head(changes)
           rest == serverDetectConflicts(serverHoldings, Tail(changes))
       IN  IF /\ MapHas(serverHoldings, change.id)
              /\ change.operation # CREATE
              /\ ServerRecordTime(MapGet(serverHoldings, change.id)) > change.timestamp
           THEN <<[id |-> change.id, type |-> change.operation,
                   localData |-> change.data,
                   serverData |-> MapGet(serverHoldings, change.id),
                   localTimestamp |-> change.timestamp,
                   serverTimestamp |->
                     ServerRecordTime(MapGet(serverHoldings, change.id))]>> \o rest
           ELSE rest

\* the document of a user the store has no document of
\* lastSyncTime: null is 0
DefaultSettings == <<<<"colorScheme", "red-green">>, <<"lastSyncTime", 0>>>>

NoDocument ==
  [exists |-> FALSE, fundHoldings |-> <<>>, stockHoldings |-> <<>>,
   accountGroups |-> <<>>, settings |-> DefaultSettings, lastUpdated |-> 0]

NoData ==
  [fundHoldings |-> <<>>, stockHoldings |-> <<>>, accountGroups |-> <<>>,
   settings |-> <<>>, lastUpdated |-> 0]

SyncRequest(changes, accountGroups, settings, force) ==
  [changes |-> changes, accountGroups |-> accountGroups, settings |-> settings,
   force |-> force]

NoRes ==
  [req |-> SyncRequest(<<>>, <<>>, <<>>, FALSE), answered |-> FALSE,
   success |-> FALSE, conflicts |-> <<>>, requiresResolution |-> FALSE,
   data |-> NoData]

\* a syncUserData that applies the changes before it looks at the conflicts
syncUserDataApplying(doc, req, t) ==
  LET fundChanges == SelectSeq(req.changes, IsFundChange)
      stockChanges == SelectSeq(req.changes, IsStockChange)
      allConflicts == serverDetectConflicts(doc.fundHoldings, fundChanges)
                      \o serverDetectConflicts(doc.stockHoldings, stockChanges)
      updated ==
        [exists |-> TRUE,
         fundHoldings |-> applyChanges(doc.fundHoldings, fundChanges),
         stockHoldings |-> applyChanges(doc.stockHoldings, stockChanges),
         accountGroups |-> IF Len(req.accountGroups) > 0 THEN req.accountGroups
                           ELSE doc.accountGroups,
         settings |-> Spread(Spread(doc.settings, req.settings),
                             <<<<"lastSyncTime", t>>>>),
         lastUpdated |-> t]
  IN  IF Len(allConflicts) > 0 /\ ~req.force
      THEN [doc |-> updated,
            res |-> [req |-> req, answered |-> TRUE, success |-> FALSE,
                     conflicts |-> allConflicts, requiresResolution |-> TRUE,
                     data |-> NoData]]
      ELSE [doc |-> updated,
            res |-> [req |-> req, answered |-> TRUE, success |-> TRUE,
                     conflicts |-> allConflicts, requiresResolution |-> FALSE,
                     data |-> [fundHoldings |-> updated.fundHoldings,
                               stockHoldings |-> updated.stockHoldings,
                               accountGroups |-> updated.accountGroups,
                               settings |-> updated.settings,
                               lastUpdated |-> t]]]

\* syncUserData on the memory store: the document it leaves and its response
syncUserData(doc, req, t) ==
  LET fundChanges == SelectSeq(req.changes, IsFundChange)
      stockChanges == SelectSeq(req.changes, IsStockChange)
      found == [doc EXCEPT !.exists = TRUE,
                           !.lastUpdated = IF doc.exists THEN @ ELSE t]
      allConflicts == serverDetectConflicts(found.fundHoldings, fundChanges)
                      \o serverDetectConflicts(found.stockHoldings, stockChanges)
      updated ==
        [exists |-> TRUE,
         fundHoldings |-> applyChanges(found.fundHoldings, fundChanges),
         stockHoldings |-> applyChanges(found.stockHoldings, stockChanges),
         accountGroups |-> IF Len(req.accountGroups) > 0 THEN req.accountGroups
                           ELSE found.accountGroups,
         settings |-> Spread(Spread(found.settings, req.settings),
                             <<<<"lastSyncTime", t>>>>),
         lastUpdated |-> t]
  IN  IF Len(allConflicts) > 0 /\ ~req.force
      THEN [doc |-> found,
            res |-> [req |-> req, answered |-> TRUE, success |-> FALSE,
                     conflicts |-> allConflicts, requiresResolution |-> TRUE,
                     data |-> NoData]]
      ELSE [doc |-> updated,
            res |-> [req |-> req, answered |-> TRUE, success |-> TRUE,
                     conflicts |-> allConflicts, requiresResolution |-> FALSE,
                     data |-> [fundHoldings |-> updated.fundHoldings,
                               stockHoldings |-> updated.stockHoldings,
                               accountGroups |-> updated.accountGroups,
                               settings |-> updated.settings,
                               lastUpdated |-> t]]]

(***************************************************************************)
(* State of one client and its orchestrator instance                       *)
(***************************************************************************)
(***************************************************************************)
(* syncUserData on the persistent store: UserData.findOne, the merge, and  *)
(* userData.save() are separate steps of a request                         *)
(***************************************************************************)
\* the requests of one user that are in progress at the same time
Handlers == {1, 2}

\* a request that has not arrived
NoHandler ==
  [phase |-> "none", req |-> SyncRequest(<<>>, <<>>, <<>>, FALSE), doc |-> NoDocument,
   success |-> FALSE, readAfter |-> 0, savedAs |-> 0]

\* the fields of a holding in the schema of UserData, fund or stock
HoldingPaths ==
  <<"id", "fundCode", "fundName", "stockCode", "stockName", "share", "quantity",
    "costPrice", "addTime", "notes", "groupId">>

\* an array of holdings as the schema keeps it: fields outside the schema
\* are not stored
castHoldings(list) == [i \in 1..Len(list) |-> Pick(list[i], HoldingPaths)]

\* UserData.findOne({ userId }) || new UserData({ userId })
findOne(stored) == stored

\* the data objects a change can carry: fundCode, share and id of a holding,
\* each present or not, in any order
DataDomain ==
  LET values == {<<"fundCode", "000001">>, <<"share", 1000>>, <<"share", 2000>>}
                  \cup {<<"id", id>> : id \in Ids}
      lists == {<<>>} \cup {<<a>> : a \in values}
                 \cup {<<a, b>> : a \in values, b \in values}
                 \cup {<<a, b, c>> : a \in values, b \in values, c \in values}
  IN  {d \in lists : \A i, j \in 1..Len(d) : d[i][1] = d[j][1] => i = j}

\* JSON.parse of the text JSON.stringify wrote for a data object
JSONparse ==
  [text \in {JSONstringify(d) : d \in DataDomain} |->
     CHOOSE d \in DataDomain : JSONstringify(d) = text]

\* the constructor's loadPendingChanges: the pending changes parsed from the
\* text savePendingChanges stored
loadPendingChanges(stored) ==
  [i \in 1..Len(stored) |->
     [stored[i] EXCEPT !.data = JSONparse[JSONstringify(@)]]]

\* a savePendingChanges that stores nothing
savePendingChangesNot(w) == w

\* a save() that writes nothing to a document that exists
saveKeeping(stored, read, doc) ==
  IF stored.exists THEN stored
  ELSE [doc EXCEPT !.fundHoldings = castHoldings(@),
                   !.stockHoldings = castHoldings(@)]

\* userData.save(): a new document is inserted whole; of a document that was
\* found, the paths whose value is no longer the one read are set, whatever
\* the store holds now
save(stored, read, doc) ==
  LET funds == castHoldings(doc.fundHoldings)
      stocks == castHoldings(doc.stockHoldings)
      modified == SelectSeq(doc.settings,
                            LAMBDA q : Field(read.settings, q[1]) # <<q[2]>>)
  IN  IF ~read.exists
      THEN [doc EXCEPT !.fundHoldings = funds, !.stockHoldings = stocks]
      ELSE [exists |-> TRUE,
            fundHoldings |-> IF funds # read.fundHoldings THEN funds
                             ELSE stored.fundHoldings,
            stockHoldings |-> IF stocks # read.stockHoldings THEN stocks
                              ELSE stored.stockHoldings,
            accountGroups |-> IF doc.accountGroups # read.accountGroups
                              THEN doc.accountGroups ELSE stored.accountGroups,
            settings |-> Spread(stored.settings, modified),
            lastUpdated |-> IF doc.lastUpdated # read.lastUpdated
                            THEN doc.lastUpdated ELSE stored.lastUpdated]

\* syncUserData on the persistent store when no other request is in
\* progress: the document it leaves in the store and its response
syncUserDataStored(stored, req, t) ==
  LET read == findOne(stored)
      r == syncUserData(read, req, t)
  IN  IF r.res.success
      THEN [doc |-> save(stored, read, r.doc), res |-> r.res]
      ELSE [doc |-> stored, res |-> r.res]

VARIABLES
  now,             \* Date.now()
  token,           \* localStorage has 'token'
  user,            \* localStorage has 'user'
  syncStatus,      \* PositionSyncService.syncStatus
  notified,        \* the statuses a registered listener received in the last step
  pendingChanges,  \* PositionSyncService.pendingChanges
  storedPending,   \* pendingChanges inside localStorage['position_sync_metadata']
  local,           \* the stores: holdings, stockHoldings, groups, settings
  probe,           \* a function of the service applied on its own: its name,
                   \* its arguments and what it returned
  userData,        \* the user's document on the server
  res,             \* the last response of the server's reconciler
  temps,           \* number of generated temp_ ids
  ops,             \* number of calls the user interface has made
  pass,            \* the passes: performSync executions and their sync() frames
  lastReturn,      \* the sync() call of the last step: through which entry point
                   \* (via) it came and what it returned if it was turned away
  handlers         \* the requests in progress at syncUserData on the persistent
                   \* store: what each read and whether it saved

vars == <<now, token, user, syncStatus, notified, pendingChanges, storedPending,
          local, probe, userData, res, temps, ops, pass, lastReturn, handlers>>

Passes == 1..MaxOps

\* the ids the user interface can name: the holdings' and the generated ones
KnownIds == Ids \cup {TempId(n) : n \in 1..temps}

\* no function has been applied on its own
NoProbe == [fn |-> "none", args |-> <<>>, out |-> <<>>, applied |-> FALSE]

\* SyncResult; msg names the message string of the source
SyncResult(success, msg, conflicts) ==
  [success |-> success, message |-> msg, conflicts |-> conflicts]

NoResult == SyncResult(FALSE, "", <<>>)

NoReturn == [result |-> NoResult, via |-> ""]

MsgLoginFirst == "login first"                \* '请先登录'
MsgInProgress == "sync in progress"           \* '同步正在进行中'
MsgUploadFailed == "upload failed"            \* '上传数据失败'
MsgDownloadFailed == "download failed"        \* '下载数据失败'
MsgConflicts == "conflicts detected"          \* '检测到 n 个数据冲突，请手动解决'
MsgSuccess == "sync succeeded"                \* '同步成功'
MsgTimeout == "sync failed: sync timeout"     \* '同步失败: 同步超时'

\* what the model keeps of the body of an upload request: its changes
NoRequest == [changes |-> <<>>]

NoPass ==
  [phase |-> "none", skipDownload |-> FALSE, force |-> FALSE,
   retries |-> 0, retryDelay |-> retryDelay0,
   caller |-> "none", via |-> "", result |-> NoResult,
   upload |-> "none", requests |-> 0, waits |-> <<>>, lastError |-> NoError,
   request |-> NoRequest, srvConflicts |-> {}]

(***************************************************************************)
(* The handlers are composed from steps on a record w: the part of the     *)
(* state a pass can touch (st = syncStatus, n = the notifications of this  *)
(* step, pend = pendingChanges, saved = storedPending, tok/usr = the       *)
(* credential, t = now) and p, the pass itself.                            *)
(*   p.phase    where performSync waits: upload_wait / download_wait (a    *)
(*              request is in flight), upload_sleep / download_sleep (the  *)
(*              backoff timer runs), done (it returned in the last step)   *)
(*   p.caller   the sync() frame: waiting on Promise.race, or returned     *)
(*   p.via      who awaits that frame: "sync" (the user interface) or       *)
(*              "forceSync"                                                 *)
(*   p.result   what sync() returned                                       *)
(*   p.upload   how uploadChanges ended: ok (it returned true), failed (it *)
(*              returned false), unauthorized (it returned false from the  *)
(*              401 branch of its catch block), skipped (it was not called)*)
(*   p.requests, p.waits, p.lastError   requests issued, sleeps taken and  *)
(*              the last error caught by the loop of the current phase     *)
(*   p.request  the body of the upload request in flight                   *)
(*   p.srvConflicts   ids the server reported as conflicts of the upload   *)
(* The record of a pass that has returned is kept for one step.            *)
(***************************************************************************)
notifyStatusChange(w, status) == [w EXCEPT !.st = status, !.n = Append(@, status)]

savePendingChanges(w) == [w EXCEPT !.saved = w.pend]

handle401Error(w) == [w EXCEPT !.tok = FALSE, !.usr = FALSE]

\* performSync returns r: the race settles with it unless the deadline came first
Return(w, r) ==
  [w EXCEPT !.p.phase = "done",
            !.p.result = IF w.p.caller = "waiting" THEN r ELSE @,
            !.p.caller = "returned"]

\* step 3 of performSync (verifySyncResult only reads and logs)
Verify(w) ==
  Return(notifyStatusChange(notifyStatusChange(w, SYNCING), SUCCESS),
         SyncResult(TRUE, MsgSuccess, <<>>))

\* one turn of the loop of downloadAndApplyChanges, up to the request
DownloadAttempt(w) ==
  [w EXCEPT !.p.phase = "download_wait", !.p.requests = @ + 1]

\* step 2 of performSync, entered after the upload step
DownloadStep(w) ==
  IF ~w.p.skipDownload
  THEN DownloadAttempt([notifyStatusChange(w, SYNCING)
                          EXCEPT !.p.retries = 0, !.p.retryDelay = retryDelay0,
                                 !.p.requests = 0, !.p.waits = <<>>,
                                 !.p.lastError = NoError])
  ELSE Verify(w)

\* performSync after downloadAndApplyChanges returned {success, conflicts}
AfterDownload(w, success, conflicts) ==
  IF Len(conflicts) > 0
  THEN Return(notifyStatusChange(w, CONFLICT),
              SyncResult(FALSE, MsgConflicts, ConflictIds(conflicts)))
  ELSE IF success \/ w.p.force
  THEN Verify(w)
  ELSE Return(notifyStatusChange(w, ERROR),
              SyncResult(FALSE, MsgDownloadFailed, <<>>))

\* a performSync that goes on to the download step whatever the upload returned
AfterUploadContinuing(w, uploadSuccess) == DownloadStep(w)

\* performSync after uploadChanges returned uploadSuccess
AfterUpload(w, uploadSuccess) ==
  IF ~uploadSuccess /\ ~w.p.force
  THEN Return(notifyStatusChange(w, ERROR),
              SyncResult(FALSE, MsgUploadFailed, <<>>))
  ELSE DownloadStep(w)

\* uploadChanges returns
UploadReturn(w, how) ==
  AfterUpload([w EXCEPT !.p.upload = how, !.p.request = NoRequest], how = "ok")

\* the catch block of uploadChanges
UploadCatch(w, error) ==
  LET w1 == [w EXCEPT !.p.lastError = error]
  IN  IF isAuthError(error)
      THEN UploadReturn(handle401Error(w1), "unauthorized")
      ELSE IF isRetryableError(error) /\ w.p.retries < maxRetries - 1
      THEN [w1 EXCEPT !.p.retries = @ + 1,
                      !.p.phase = "upload_sleep",
                      !.p.request = NoRequest,
                      !.p.waits = Append(@, w.p.retryDelay)]
      ELSE UploadReturn(w1, "failed")

\* one turn of the loop of uploadChanges, up to the request:
\* positionSyncApiService.sync throws before it sends when no token is stored
UploadAttempt(w) ==
  IF ~w.tok
  THEN UploadCatch(w, NotLoggedInError)
  ELSE [w EXCEPT !.p.phase = "upload_wait",
                 !.p.requests = @ + 1,
                 !.p.request = [changes |-> w.pend]]

\* step 1 of performSync
UploadStep(w, skipUpload) ==
  IF skipUpload
  THEN DownloadStep([w EXCEPT !.p.upload = "skipped"])
  ELSE LET w1 == notifyStatusChange(w, SYNCING)
       IN  IF Len(w1.pend) = 0
           THEN UploadReturn(w1, "ok")
           ELSE UploadAttempt(w1)

\* an uploadChanges that leaves the Change Log as it is on success
UploadRespondedKeeping(w, ok) ==
  IF ok
  THEN UploadReturn(w, "ok")
  ELSE UploadReturn(w, "failed")

\* the response of the upload request arrived: the body has success = ok
UploadResponded(w, ok) ==
  IF ok
  THEN UploadReturn(savePendingChanges([w EXCEPT !.pend = <<>>]), "ok")
  ELSE UploadReturn(w, "failed")

\* the catch block of downloadAndApplyChanges
DownloadCatch(w, error) ==
  LET w1 == [w EXCEPT !.p.lastError = error]
  IN  IF isAuthError(error)
      THEN AfterDownload(handle401Error(w1), FALSE, <<>>)
      ELSE IF isRetryableError(error) /\ w.p.retries < maxRetries - 1
      THEN [w1 EXCEPT !.p.retries = @ + 1,
                      !.p.phase = "download_sleep",
                      !.p.waits = Append(@, w.p.retryDelay)]
      ELSE AfterDownload(w1, FALSE, <<>>)

\* a downloadAndApplyChanges that applies the snapshot before it looks at
\* the conflicts
DownloadRespondedApplying(w, body) ==
  IF ~body.success \/ ~body.hasData
  THEN AfterDownload(w, FALSE, <<>>)
  ELSE LET conflicts == detectConflicts(w.pend, body.fundHoldings, body.stockHoldings)
           w1 == [w EXCEPT !.loc = applySnapshot(w.loc, body, w.t)]
       IN  IF Len(conflicts) > 0
           THEN AfterDownload(w1, FALSE, conflicts)
           ELSE AfterDownload(w1, TRUE, <<>>)

\* the response of GET /api/data/get arrived
DownloadResponded(w, body) ==
  IF ~body.success \/ ~body.hasData
  THEN AfterDownload(w, FALSE, <<>>)
  ELSE LET conflicts == detectConflicts(w.pend, body.fundHoldings, body.stockHoldings)
       IN  IF Len(conflicts) > 0
           THEN AfterDownload(w, FALSE, conflicts)
           ELSE AfterDownload([w EXCEPT !.loc = applySnapshot(w.loc, body, w.t)],
                              TRUE, <<>>)

\* sync() after its two guards
SyncStart(w, skipUpload, skipDownload, force) ==
  UploadStep([notifyStatusChange(w, SYNCING)
                EXCEPT !.p = [NoPass EXCEPT !.caller = "waiting",
                                            !.skipDownload = skipDownload,
                                            !.force = force]],
             skipUpload)

World(p) ==
  [st |-> syncStatus, n |-> <<>>, pend |-> pendingChanges,
   saved |-> storedPending, loc |-> local, tok |-> token, usr |-> user,
   t |-> now, p |-> p]

\* the record of a pass that returned in an earlier step is dropped
Forget(passes) ==
  [i \in Passes |-> IF passes[i].phase = "done" THEN NoPass ELSE passes[i]]

Commit(w) ==
  /\ syncStatus' = w.st
  /\ notified' = w.n
  /\ pendingChanges' = w.pend
  /\ storedPending' = w.saved
  /\ local' = w.loc
  /\ token' = w.tok
  /\ UNCHANGED <<probe, userData, res, handlers>>
  /\ user' = w.usr

\* a step of pass i
Step(w, i) ==
  /\ Commit(w)
  /\ pass' = [Forget(pass) EXCEPT ![i] = w.p]
  /\ lastReturn' = NoReturn
  /\ UNCHANGED <<now, temps, ops>>

\* a step outside the passes
Quiet ==
  /\ notified' = <<>>
  /\ local' = local
  /\ UNCHANGED <<probe, userData, res, handlers>>
  /\ pass' = Forget(pass)
  /\ lastReturn' = NoReturn

\* a call from the user interface
Call ==
  /\ ops < MaxOps
  /\ ops' = ops + 1

\* the slot of the next pass
FreeSlot ==
  CHOOSE i \in Passes :
    /\ pass[i].phase \in {"none", "done"}
    /\ \A j \in 1..(i - 1) : pass[j].phase \notin {"none", "done"}

(***************************************************************************)
(* Inputs                                                                  *)
(***************************************************************************)
CreateData(id) == <<<<"fundCode", "000001">>, <<"share", 1000>>, <<"id", id>>>>
UpdateData(id) == <<<<"fundCode", "000001">>, <<"share", 2000>>, <<"id", id>>>>
DeleteData(id) == <<<<"id", id>>>>
NewData == <<<<"fundCode", "000001">>, <<"share", 1000>>>>

RecordInputs(id) ==
  {<<CREATE, CreateData(id)>>, <<UPDATE, UpdateData(id)>>, <<DELETE, DeleteData(id)>>}

ServerHolding(id, t) ==
  <<<<"id", id>>, <<"fundCode", "000001">>, <<"share", 1000>>, <<"updatedAt", t>>>>

LocalSettings == <<<<"colorScheme", "red-green">>>>
ServerSettings == <<<<"colorScheme", "green-red">>>>

\* the body of the answer to GET /api/data/get: response.data has the
\* holdings and, when there are holdings, account groups and settings
UserDataBody(funds) ==
  [success |-> TRUE, hasData |-> TRUE, fundHoldings |-> funds, stockHoldings |-> <<>>,
   hasGroups |-> funds # <<>>, accountGroups |-> IF funds # <<>> THEN <<"g1">> ELSE <<>>,
   hasSettings |-> funds # <<>>, settings |-> IF funds # <<>> THEN ServerSettings ELSE <<>>]

DownloadBodies ==
  {[UserDataBody(<<>>) EXCEPT !.success = FALSE, !.hasData = FALSE],
   UserDataBody(<<>>)}
  \cup {UserDataBody(<<ServerHolding(id, t)>>) : id \in Ids, t \in 1..MaxTime}

\* the holding the client has when it starts
LocalHolding(id) ==
  <<<<"fundCode", "000001">>, <<"share", 2000>>, <<"addTime", 1>>, <<"id", id>>>>

(***************************************************************************)
(* Actions                                                                 *)
(***************************************************************************)
\* the state after construction, but for the function applied on its own
Constructed ==
  /\ now = 1
  /\ token \in BOOLEAN
  /\ user = token
  /\ syncStatus = IDLE
  /\ notified = <<>>
  /\ pendingChanges = <<>>
  /\ storedPending = <<>>
  /\ local = [holdings |-> <<LocalHolding("h1")>>, stockHoldings |-> <<>>,
              groups |-> {}, settings |-> LocalSettings]
  /\ userData = NoDocument
  /\ res = NoRes
  /\ temps = 0
  /\ ops = 0
  /\ pass = [i \in Passes |-> NoPass]
  /\ lastReturn = NoReturn
  /\ handlers = [k \in Handlers |-> NoHandler]

Init ==
  /\ Constructed
  /\ probe = NoProbe

Tick ==
  /\ now < MaxTime
  /\ now' = now + 1
  /\ Quiet
  /\ UNCHANGED <<token, user, syncStatus, pendingChanges, storedPending, temps, ops>>

\* authApiService.storeAuthInfo
Login ==
  /\ Call
  /\ ~token
  /\ token' = TRUE
  /\ user' = TRUE
  /\ Quiet
  /\ UNCHANGED <<now, syncStatus, pendingChanges, storedPending, temps>>

\* authApiService.logout
Logout ==
  /\ Call
  /\ token
  /\ token' = FALSE
  /\ user' = FALSE
  /\ Quiet
  /\ UNCHANGED <<now, syncStatus, pendingChanges, storedPending, temps>>

RecordChange(operation, data, id) ==
  /\ Call
  /\ pendingChanges' = recordChange(pendingChanges, operation, data, id, now)
  /\ storedPending' = pendingChanges'
  /\ Quiet
  /\ UNCHANGED <<now, token, user, syncStatus, temps>>

\* recordChange without an id: the change gets a generated temp_ id
RecordChangeNew ==
  /\ Call
  /\ temps' = temps + 1
  /\ pendingChanges' = recordChange(pendingChanges, CREATE, NewData, TempId(temps + 1), now)
  /\ storedPending' = pendingChanges'
  /\ Quiet
  /\ UNCHANGED <<now, token, user, syncStatus>>

ResolveConflict(conflictId, strategy) ==
  /\ Call
  /\ pendingChanges' = resolveConflictList(pendingChanges, conflictId, strategy, now)
  /\ storedPending' = IF findIndex(pendingChanges, conflictId) = 0
                      THEN storedPending ELSE pendingChanges'
  /\ Quiet
  /\ UNCHANGED <<now, token, user, syncStatus, temps>>

\* a sync() without the guard on the status
syncUnguarded(w, skipUpload, skipDownload, force, via) ==
  IF ~w.tok
  THEN /\ Commit(w)
       /\ pass' = Forget(pass)
       /\ lastReturn' = [result |-> SyncResult(FALSE, MsgLoginFirst, <<>>), via |-> via]
  ELSE /\ Commit(SyncStart(w, skipUpload, skipDownload, force))
       /\ pass' = [Forget(pass) EXCEPT
                     ![FreeSlot] = [SyncStart(w, skipUpload, skipDownload, force).p
                                      EXCEPT !.via = via]]
       /\ lastReturn' = [result |-> NoResult, via |-> via]

\* sync(options), with w the state it is called in and via the caller
sync(w, skipUpload, skipDownload, force, via) ==
  IF ~w.tok
  THEN /\ Commit(w)
       /\ pass' = Forget(pass)
       /\ lastReturn' = [result |-> SyncResult(FALSE, MsgLoginFirst, <<>>), via |-> via]
  ELSE IF w.st = SYNCING
  THEN /\ Commit(w)
       /\ pass' = Forget(pass)
       /\ lastReturn' = [result |-> SyncResult(FALSE, MsgInProgress, <<>>), via |-> via]
  ELSE /\ Commit(SyncStart(w, skipUpload, skipDownload, force))
       /\ pass' = [Forget(pass) EXCEPT
                     ![FreeSlot] = [SyncStart(w, skipUpload, skipDownload, force).p
                                      EXCEPT !.via = via]]
       /\ lastReturn' = [result |-> NoResult, via |-> via]

Sync(skipUpload, skipDownload, force) ==
  /\ Call
  /\ sync(World(NoPass), skipUpload, skipDownload, force, "sync")
  /\ UNCHANGED <<now, temps>>

\* a forceSync that goes to sync() with the Change Log as it is
ForceSyncKeeping ==
  /\ Call
  /\ sync(World(NoPass), FALSE, FALSE, FALSE, "forceSync")
  /\ UNCHANGED <<now, temps>>

\* a forceSync that empties the Change Log only when sync() will accept the call
ForceSyncIfAccepted ==
  /\ Call
  /\ IF token /\ syncStatus # SYNCING
     THEN sync(savePendingChanges([World(NoPass) EXCEPT !.pend = <<>>]),
               FALSE, FALSE, FALSE, "forceSync")
     ELSE sync(World(NoPass), FALSE, FALSE, FALSE, "forceSync")
  /\ UNCHANGED <<now, temps>>

\* forceSync: empties the Change Log, saves it, then sync()
ForceSync ==
  /\ Call
  /\ sync(savePendingChanges([World(NoPass) EXCEPT !.pend = <<>>]),
          FALSE, FALSE, FALSE, "forceSync")
  /\ UNCHANGED <<now, temps>>

\* an autoSync that goes to sync() whatever the credential and the Change Log
AutoSyncAlways ==
  /\ Call
  /\ sync(World(NoPass), FALSE, FALSE, FALSE, "autoSync")
  /\ UNCHANGED <<now, temps>>

\* autoSync: returns when isAuthenticated() is false or nothing is pending,
\* else awaits sync() without options
AutoSync ==
  /\ Call
  /\ IF ~token \/ Len(pendingChanges) = 0
     THEN /\ notified' = <<>>
          /\ pass' = Forget(pass)
          /\ lastReturn' = [result |-> NoResult, via |-> "autoSync"]
          /\ UNCHANGED <<token, user, syncStatus, pendingChanges, storedPending, local,
                         probe, userData, res, handlers>>
     ELSE sync(World(NoPass), FALSE, FALSE, FALSE, "autoSync")
  /\ UNCHANGED <<now, temps>>

\* the upload request of pass i ends: with the server's answer, or with an error
UploadAnswer(i) ==
  /\ pass[i].phase = "upload_wait"
  /\ \E K \in SUBSET ConflictCandidates(pass[i].request.changes) :
       Step(UploadResponded([World(pass[i]) EXCEPT !.p.srvConflicts = K], K = {}), i)

UploadError(i) ==
  /\ pass[i].phase = "upload_wait"
  /\ \E error \in RequestErrors : Step(UploadCatch(World(pass[i]), error), i)

\* the backoff sleep of the upload loop ends
UploadWake(i) ==
  /\ pass[i].phase = "upload_sleep"
  /\ Step(UploadAttempt([World(pass[i]) EXCEPT !.p.retryDelay = @ * 2]), i)

DownloadAnswer(i) ==
  /\ pass[i].phase = "download_wait"
  /\ \E body \in DownloadBodies : Step(DownloadResponded(World(pass[i]), body), i)

DownloadError(i) ==
  /\ pass[i].phase = "download_wait"
  /\ \E error \in RequestErrors : Step(DownloadCatch(World(pass[i]), error), i)

DownloadWake(i) ==
  /\ pass[i].phase = "download_sleep"
  /\ Step(DownloadAttempt([World(pass[i]) EXCEPT !.p.retryDelay = @ * 2]), i)

\* the passes that run on after their sync() returned on the deadline
Late == {i \in Passes : pass[i].caller = "returned" /\ pass[i].phase # "done"}

\* the deadline timer of sync() fires before performSync settled the race
Timeout(i) ==
  /\ Cardinality(Late) < MaxLate
  /\ pass[i].caller = "waiting"
  /\ pass[i].phase # "done"
  /\ Step([notifyStatusChange(World(pass[i]), ERROR)
             EXCEPT !.p.caller = "returned",
                    !.p.result = SyncResult(FALSE, MsgTimeout, <<>>)], i)

Next ==
  \/ Tick
  \/ Login
  \/ Logout
  \/ \E id \in Ids : \E inp \in RecordInputs(id) : RecordChange(inp[1], inp[2], id)
  \/ RecordChangeNew
  \/ \E id \in KnownIds, strategy \in Strategies : ResolveConflict(id, strategy)
  \/ \E skipUpload, skipDownload, force \in BOOLEAN : Sync(skipUpload, skipDownload, force)
  \/ ForceSync
  \/ \E i \in Passes : UploadAnswer(i)
  \/ \E i \in Passes : UploadError(i)
  \/ \E i \in Passes : UploadWake(i)
  \/ \E i \in Passes : DownloadAnswer(i)
  \/ \E i \in Passes : DownloadError(i)
  \/ \E i \in Passes : DownloadWake(i)

\* the deadline of sync() (30 s unless the caller gives another) does not expire
Spec == Init /\ [][Next]_vars

\* the deadline can expire while a request is in flight or a backoff sleep runs
DeadlineNext ==
  \/ Tick
  \/ \E id \in Ids : RecordChange(UPDATE, UpdateData(id), id)
  \/ \E force \in BOOLEAN : Sync(FALSE, FALSE, force)
  \/ \E i \in Passes : UploadAnswer(i)
  \/ \E i \in Passes : UploadError(i)
  \/ \E i \in Passes : UploadWake(i)
  \/ \E i \in Passes : DownloadAnswer(i)
  \/ \E i \in Passes : DownloadError(i)
  \/ \E i \in Passes : DownloadWake(i)
  \/ \E i \in Passes : Timeout(i)

DeadlineSpec == Init /\ [][DeadlineNext]_vars

\* sync() without options, called when no performSync is running
SyncAlone ==
  /\ \A i \in Passes : pass[i].phase \in {"none", "done"}
  /\ Sync(FALSE, FALSE, FALSE)

\* one pass at a time; the timers (the deadline of sync(), the backoff
\* sleeps) fire, while a request may stay unanswered for ever
TimersNext ==
  \/ Tick
  \/ \E id \in Ids : RecordChange(UPDATE, UpdateData(id), id)
  \/ SyncAlone
  \/ \E i \in Passes : UploadAnswer(i)
  \/ \E i \in Passes : UploadError(i)
  \/ \E i \in Passes : UploadWake(i)
  \/ \E i \in Passes : DownloadAnswer(i)
  \/ \E i \in Passes : DownloadError(i)
  \/ \E i \in Passes : DownloadWake(i)
  \/ \E i \in Passes : Timeout(i)

TimersSpec ==
  /\ Init
  /\ [][TimersNext]_vars
  /\ WF_vars(\E i \in Passes : Timeout(i))
  /\ WF_vars(\E i \in Passes : UploadWake(i))
  /\ WF_vars(\E i \in Passes : DownloadWake(i))

(***************************************************************************)
(* Client and server together: the requests of the passes are answered by  *)
(* the server's routes on the document of the user (memory store)          *)
(***************************************************************************)
\* the groups of the store as the array the upload sends
RECURSIVE GroupList(_)
GroupList(groups) ==
  IF groups = {} THEN <<>>
  ELSE LET g == CHOOSE x \in groups : TRUE
       IN  <<g>> \o GroupList(groups \ {g})

\* the body uploadChanges posts: the pending changes, the groups, the settings
UploadBody(w) ==
  SyncRequest(w.p.request.changes, GroupList(w.loc.groups),
              Spread(w.loc.settings, <<<<"lastSyncTime", w.t>>>>), FALSE)

\* the answer of getUserData: the document of the user
GetUserDataBody(doc) ==
  [success |-> TRUE, hasData |-> TRUE,
   fundHoldings |-> doc.fundHoldings, stockHoldings |-> doc.stockHoldings,
   hasGroups |-> TRUE, accountGroups |-> doc.accountGroups,
   hasSettings |-> TRUE, settings |-> SelectSeq(doc.settings, LAMBDA q : q[1] # "lastSyncTime")]

\* a step of pass i that leaves the server with the document doc and the
\* response r
ServedStep(w, i, doc, r) ==
  /\ syncStatus' = w.st
  /\ notified' = w.n
  /\ pendingChanges' = w.pend
  /\ storedPending' = w.saved
  /\ local' = w.loc
  /\ token' = w.tok
  /\ user' = w.usr
  /\ pass' = [Forget(pass) EXCEPT ![i] = w.p]
  /\ lastReturn' = NoReturn
  /\ userData' = doc
  /\ res' = r
  /\ UNCHANGED <<now, temps, ops, probe, handlers>>

\* useEnhancedFundStore.deleteHolding: the row leaves the table, and DELETE
\* is recorded with the payload {id}
StoreDeleteHolding(id) ==
  /\ Call
  /\ MapHas(local.holdings, id)
  /\ local' = [local EXCEPT !.holdings = deleteHolding(@, id)]
  /\ pendingChanges' = recordChange(pendingChanges, DELETE, DeleteData(id), id, now)
  /\ storedPending' = pendingChanges'
  /\ notified' = <<>>
  /\ pass' = Forget(pass)
  /\ lastReturn' = NoReturn
  /\ UNCHANGED <<now, token, user, syncStatus, temps, probe, userData, res, handlers>>

\* POST /api/position-sync/sync of pass i is answered by syncUserData
UploadServed(i) ==
  /\ pass[i].phase = "upload_wait"
  /\ \E r \in {syncUserData(userData, UploadBody(World(pass[i])), now)} :
       ServedStep(UploadResponded(
                    [World(pass[i]) EXCEPT
                       !.p.srvConflicts = {c.id : c \in {r.res.conflicts[n] :
                                                          n \in 1..Len(r.res.conflicts)}}],
                    r.res.success),
                  i, r.doc, r.res)

\* GET /api/data/get of pass i is answered by getUserData
DownloadServed(i) ==
  /\ pass[i].phase = "download_wait"
  /\ \E doc \in {[userData EXCEPT !.exists = TRUE,
                                  !.lastUpdated = IF userData.exists THEN @ ELSE now]} :
       ServedStep(DownloadResponded(World(pass[i]), GetUserDataBody(doc)), i, doc, res)

RoundNext ==
  \/ Tick
  \/ \E id \in Ids : StoreDeleteHolding(id)
  \/ \E id \in Ids : RecordChange(UPDATE, UpdateData(id), id)
  \/ \E force \in BOOLEAN : Sync(FALSE, FALSE, force)
  \/ \E i \in Passes : UploadServed(i)
  \/ \E i \in Passes : UploadError(i)
  \/ \E i \in Passes : UploadWake(i)
  \/ \E i \in Passes : DownloadServed(i)
  \/ \E i \in Passes : DownloadError(i)
  \/ \E i \in Passes : DownloadWake(i)

\* the user is logged in; the document of the server has the holding the
\* client has, stamped by the server at 1 or later
RoundInit ==
  /\ now = 1
  /\ token = TRUE
  /\ user = TRUE
  /\ syncStatus = IDLE
  /\ notified = <<>>
  /\ pendingChanges = <<>>
  /\ storedPending = <<>>
  /\ local = [holdings |-> <<LocalHolding("h1")>>, stockHoldings |-> <<>>,
              groups |-> {}, settings |-> LocalSettings]
  /\ probe = NoProbe
  /\ \E t \in 1..MaxTime :
       userData = [NoDocument EXCEPT
                     !.exists = TRUE, !.lastUpdated = 1,
                     !.fundHoldings =
                        <<Spread(LocalHolding("h1"), <<<<"updatedAt", t>>>>)>>]
  /\ res = NoRes
  /\ temps = 0
  /\ ops = 0
  /\ pass = [i \in Passes |-> NoPass]
  /\ lastReturn = NoReturn
  /\ handlers = [k \in Handlers |-> NoHandler]

RoundSpec == RoundInit /\ [][RoundNext]_vars

\* recordChange while no performSync is running
RecordChangeIdle(operation, data, id) ==
  /\ \A i \in Passes : pass[i].phase \in {"none", "done"}
  /\ RecordChange(operation, data, id)

\* sync() with the default options; no change is recorded during a pass
DefaultNext ==
  \/ Tick
  \/ Login
  \/ Logout
  \/ \E id \in Ids : \E inp \in RecordInputs(id) : RecordChangeIdle(inp[1], inp[2], id)
  \/ Sync(FALSE, FALSE, FALSE)
  \/ \E i \in Passes : UploadAnswer(i)
  \/ \E i \in Passes : UploadError(i)
  \/ \E i \in Passes : UploadWake(i)
  \/ \E i \in Passes : DownloadAnswer(i)
  \/ \E i \in Passes : DownloadError(i)
  \/ \E i \in Passes : DownloadWake(i)

DefaultSpec == Init /\ [][DefaultNext]_vars

\* autoSync in the background, between logins, logouts and edits
AutoNext ==
  \/ Tick
  \/ Login
  \/ Logout
  \/ \E id \in Ids : RecordChange(UPDATE, UpdateData(id), id)
  \/ AutoSync
  \/ \E i \in Passes : UploadAnswer(i)
  \/ \E i \in Passes : UploadError(i)
  \/ \E i \in Passes : UploadWake(i)
  \/ \E i \in Passes : DownloadAnswer(i)
  \/ \E i \in Passes : DownloadError(i)
  \/ \E i \in Passes : DownloadWake(i)

AutoSpec == Init /\ [][AutoNext]_vars

(***************************************************************************)
(* The hook usePositionSync: its resolveConflict(conflictId, useLocal)      *)
(***************************************************************************)
\* the boolean useLocal as the service receives it in its parameter strategy
HookStrategy(useLocal) == IF useLocal THEN "true" ELSE "false"

\* usePositionSync.resolveConflict: resolveConflict of the service with the
\* boolean as its strategy and, if that returned true, sync()
HookResolveConflict(conflictId, useLocal) ==
  /\ Call
  /\ IF resolveConflictReturns(pendingChanges, conflictId)
     THEN sync(savePendingChanges(
                 [World(NoPass) EXCEPT
                    !.pend = resolveConflictList(pendingChanges, conflictId,
                                                 HookStrategy(useLocal), now)]),
               FALSE, FALSE, FALSE, "resolveConflict")
     ELSE /\ Quiet
          /\ UNCHANGED <<token, user, syncStatus, pendingChanges, storedPending>>
  /\ UNCHANGED <<now, temps>>

HookNext ==
  \/ Tick
  \/ \E id \in Ids : RecordChange(UPDATE, UpdateData(id), id)
  \/ \E id \in Ids \cup {TempId(1)}, useLocal \in BOOLEAN :
       HookResolveConflict(id, useLocal)
  \/ \E i \in Passes : UploadAnswer(i)
  \/ \E i \in Passes : UploadError(i)
  \/ \E i \in Passes : UploadWake(i)
  \/ \E i \in Passes : DownloadAnswer(i)
  \/ \E i \in Passes : DownloadError(i)
  \/ \E i \in Passes : DownloadWake(i)

HookSpec == Init /\ [][HookNext]_vars

(***************************************************************************)
(* The reconciler of the server on its own: requests of one user arrive    *)
(* one after the other at syncUserData (memory store)                      *)
(***************************************************************************)
\* the change of a request body: the fields applyChanges reads
RequestChange(id, operation, timestamp, data) ==
  [id |-> id, operation |-> operation, timestamp |-> timestamp, data |-> data]

RequestChanges ==
  UNION {{RequestChange(id, operation, t, data) :
            operation \in SyncOperationType, t \in 1..MaxTime,
            data \in {CreateData(id), UpdateData(id), DeleteData(id)}} : id \in Ids}

\* the lists of changes of a request: no change, one change, or a CREATE or
\* DELETE of a holding followed by a CREATE of a holding
RequestChangeLists ==
  {<<>>} \cup {<<c>> : c \in RequestChanges}
         \cup {<<c, d>> : c \in {x \in RequestChanges :
                                    x.operation # UPDATE /\ IsFundChange(x)},
                           d \in {x \in RequestChanges :
                                    x.operation = CREATE /\ IsFundChange(x)}}

\* a request with changes carries account groups and settings as well; one
\* without changes may carry neither
SyncRequests ==
  {SyncRequest(changes, <<"g1">>, ServerSettings, force) :
     changes \in RequestChangeLists, force \in BOOLEAN}
  \cup {SyncRequest(<<>>, <<>>, <<>>, force) : force \in BOOLEAN}

\* POST /api/position/sync arrives and is answered
ServerSync(req) ==
  /\ \E r \in {syncUserData(userData, req, now)} :
       userData' = r.doc /\ res' = r.res
  /\ UNCHANGED <<now, token, user, syncStatus, notified, pendingChanges, storedPending,
                 local, probe, temps, ops, pass, lastReturn, handlers>>

ServerNext ==
  \/ Tick
  \/ \E req \in SyncRequests : ServerSync(req)

\* every request of the route has passed the authentication middleware
ServerInit == Init /\ token

ServerSpec == ServerInit /\ [][ServerNext]_vars

(***************************************************************************)
(* The reconciler of the server on the persistent store: two requests of   *)
(* one user in progress at the same time                                   *)
(***************************************************************************)
\* the saves of the requests so far
Saves == Cardinality({k \in Handlers : handlers[k].savedAs > 0})

\* requests that create, update or delete one fund holding, or change nothing
StoreRequests ==
  UNION {{SyncRequest(<<RequestChange(id, inp[1], t, inp[2])>>, <<"g1">>,
                      ServerSettings, force) :
            inp \in {<<CREATE, CreateData(id)>>, <<UPDATE, UpdateData(id)>>,
                     <<DELETE, <<<<"fundCode", "000001">>>> >>},
            t \in 1..MaxTime, force \in BOOLEAN} : id \in {"h1", "h2"}}
  \cup {SyncRequest(<<>>, <<>>, <<>>, FALSE)}

\* the documents of the user in the store before the requests
StoredDocuments ==
  {NoDocument,
   [NoDocument EXCEPT !.exists = TRUE, !.lastUpdated = 1],
   [NoDocument EXCEPT !.exists = TRUE, !.lastUpdated = 1,
                      !.fundHoldings = <<<<<<"id", "h1">>, <<"fundCode", "000001">>,
                                           <<"share", 1000>>, <<"addTime", 1>>>>>>]}

\* POST /api/position/sync arrives: the handler awaits UserData.findOne
StoreFindOne(k, req) ==
  /\ handlers[k].phase = "none"
  /\ handlers' = [handlers EXCEPT ![k] =
                    [NoHandler EXCEPT !.phase = "found", !.req = req,
                                      !.doc = findOne(userData),
                                      !.readAfter = Saves]]
  /\ UNCHANGED <<now, token, user, syncStatus, notified, pendingChanges, storedPending,
                 local, probe, userData, res, temps, ops, pass, lastReturn>>

\* the handler goes on after findOne: it answers the conflicts, or merges,
\* saves and answers; the insert of a second document of the user is refused
\* by the unique index and answered with status 500
StoreSave(k) ==
  /\ handlers[k].phase = "found"
  /\ \E r \in {syncUserData(handlers[k].doc, handlers[k].req, now)} :
       IF ~r.res.success
       THEN /\ userData' = userData
            /\ res' = r.res
            /\ handlers' = [handlers EXCEPT ![k].phase = "answered"]
       ELSE IF ~handlers[k].doc.exists /\ userData.exists
       THEN /\ userData' = userData
            /\ res' = [NoRes EXCEPT !.req = handlers[k].req, !.answered = TRUE]
            /\ handlers' = [handlers EXCEPT ![k].phase = "answered"]
       ELSE /\ userData' = save(userData, handlers[k].doc, r.doc)
            /\ res' = r.res
            /\ handlers' = [handlers EXCEPT ![k].phase = "answered",
                                            ![k].success = TRUE,
                                            ![k].savedAs = Saves + 1]
  /\ UNCHANGED <<now, token, user, syncStatus, notified, pendingChanges, storedPending,
                 local, probe, temps, ops, pass, lastReturn>>

StoreNext ==
  \/ Tick
  \/ \E k \in Handlers, req \in StoreRequests : StoreFindOne(k, req)
  \/ \E k \in Handlers : StoreSave(k)

\* the requests have passed the authentication middleware
StoreInit ==
  /\ now = 1
  /\ token = TRUE
  /\ user = TRUE
  /\ syncStatus = IDLE
  /\ notified = <<>>
  /\ pendingChanges = <<>>
  /\ storedPending = <<>>
  /\ local = [holdings |-> <<LocalHolding("h1")>>, stockHoldings |-> <<>>,
              groups |-> {}, settings |-> LocalSettings]
  /\ probe = NoProbe
  /\ userData \in StoredDocuments
  /\ res = NoRes
  /\ temps = 0
  /\ ops = 0
  /\ pass = [i \in Passes |-> NoPass]
  /\ lastReturn = NoReturn
  /\ handlers = [k \in Handlers |-> NoHandler]

StoreSpec == StoreInit /\ [][StoreNext]_vars

(***************************************************************************)
(* Functions of the service applied on their own to inputs of bounded size *)
(***************************************************************************)
\* a record of the server snapshot: with or without updatedAt and addTime
SnapshotRecords(id) ==
  {<<<<"id", id>>, <<"fundCode", "000001">>, <<"share", 1000>>>> \o u \o a :
     u \in {<<>>} \cup {<<<<"updatedAt", t>>>> : t \in 1..(MaxTime + 1)},
     a \in {<<>>} \cup {<<<<"addTime", t>>>> : t \in 1..(MaxTime + 1)}}

\* the holdings of a snapshot: none, or one record of the holding
SnapshotHoldings == {<<>>} \cup {<<r>> : r \in UNION {SnapshotRecords(id) : id \in Ids}}

\* pending lists: one change of the holding, then perhaps one of another id
ProbeChangeLists ==
  LET first == {PositionChange(id, inp[1], t, inp[2]) :
                  id \in Ids, inp \in UNION {RecordInputs(i) : i \in Ids}, t \in 1..MaxTime}
  IN  {<<c>> : c \in first}
      \cup {<<c, PositionChange(TempId(1), UPDATE, 1, NewData)>> : c \in first}

DetectInputs ==
  {<<localChanges, funds, stocks>> :
     localChanges \in ProbeChangeLists,
     funds \in SnapshotHoldings, stocks \in SnapshotHoldings}

\* the payloads of two edits of one holding
EditData(id) ==
  {UpdateData(id), CreateData(id), DeleteData(id),
   <<<<"share", 1000>>, <<"groupId", "g1">>, <<"id", id>>>>}

\* recordChange is called twice for one id, at t1 and then at t2, on a list
\* that has no change of that id
RecordTwiceInputs ==
  UNION {{<<before, id, op1, data1, t1, op2, data2, t2>> :
            before \in {<<>>, <<PositionChange(TempId(1), CREATE, 1, NewData)>>},
            op1 \in SyncOperationType, data1 \in EditData(id), t1 \in 1..MaxTime,
            op2 \in SyncOperationType, data2 \in EditData(id), t2 \in 1..MaxTime} :
           id \in Ids}

\* pending lists with at most one change per id, an id to resolve and a time
ResolveInputs ==
  LET first == {<<>>} \cup {<<PositionChange(id, inp[1], 1, inp[2])>> :
                              id \in Ids, inp \in UNION {RecordInputs(i) : i \in Ids}}
      second == {<<>>, <<PositionChange(TempId(1), CREATE, 1, NewData)>>}
  IN  {<<a \o b, conflictId, strategy, t>> :
         a \in first, b \in second, conflictId \in Ids \cup {TempId(1), TempId(2)},
         strategy \in Strategies, t \in 1..MaxTime}

\* a pending change, a server snapshot and the time of resolveConflict: a
\* detection pass, resolveConflict(id, 'local'), and the next detection pass
\* against the same snapshot
ResolveLocalInputs ==
  {<<x[1], x[2], x[3], t>> :
     x \in {y \in DetectInputs : Len(y[1]) = 1 /\ (y[2] = <<>> \/ y[3] = <<>>)},
     t \in 1..(MaxTime + 1)}

\* a holding of the local stores, in a group or in none
GroupedHolding(id, code, groupId) ==
  <<<<code, "000001">>, <<"addTime", 1>>, <<"id", id>>>>
  \o (IF groupId = "" THEN <<>> ELSE <<<<"groupId", groupId>>>>)

\* local stores whose group g1 has fund or stock holdings, the snapshot of a
\* server that has these holdings and not the group, and the way the group
\* is deleted: by GroupService, by the group store, by the download
DeleteGroupInputs ==
  {<<[holdings |-> <<GroupedHolding("h1", "fundCode", fg)>>,
      stockHoldings |-> <<GroupedHolding("s1", "stockCode", sg)>>,
      groups |-> {"g1"} \cup others,
      settings |-> LocalSettings],
     "g1", route>> :
     fg \in {"", "g1"}, sg \in {"", "g1"}, others \in {{}, {"g2"}},
     route \in {"service", "store", "sync"}}

\* records of two ids with one of two values, the id first or last
DiffRecords ==
  UNION {{<<<<"id", id>>, <<"share", 1000>>>>, <<<<"id", id>>, <<"share", 2000>>>>,
          <<<<"share", 1000>>, <<"id", id>>>>} : id \in {"h1", "h2"}}

\* collections of at most two records, no id twice
DiffCollections ==
  {<<>>} \cup {<<r>> : r \in DiffRecords}
         \cup {<<r, q>> : r \in DiffRecords,
                          q \in {x \in DiffRecords : Get(x, "id") = "h2"}}
         \cup {<<q, r>> : r \in {x \in DiffRecords : Get(x, "id") = "h1"},
                          q \in {x \in DiffRecords : Get(x, "id") = "h2"}}

DiffInputs == {<<l, srv>> : l \in DiffCollections, srv \in DiffCollections}

\* two records for calculateChecksum
ChecksumInputs ==
  {<<a, b>> : a \in DiffRecords \cup {CreateData("h1"), UpdateData("h1")},
             b \in DiffRecords \cup {CreateData("h1"), UpdateData("h1")}}

\* two requests of one user, one after the other: a CREATE of a holding,
\* then an UPDATE or a DELETE of it
ModeInputs ==
  {<<SyncRequest(<<RequestChange("h1", CREATE, t1, CreateData("h1"))>>,
                 <<"g1">>, ServerSettings, FALSE),
     SyncRequest(<<RequestChange("h1", op, t2, UpdateData("h1"))>>,
                 <<"g1">>, ServerSettings, force)>> :
     t1 \in 1..MaxTime, t2 \in 1..MaxTime, op \in {UPDATE, DELETE}, force \in BOOLEAN}

ProbeInit ==
  /\ Constructed
  /\ \/ \E args \in {x \in DetectInputs : x[2] = <<>> \/ x[3] = <<>>} :
          probe = [fn |-> "detectConflicts", args |-> args, out |-> <<>>, applied |-> FALSE]
     \/ \E args \in {x \in RecordTwiceInputs : x[5] <= x[8]} :
          probe = [fn |-> "recordChange", args |-> args, out |-> <<>>, applied |-> FALSE]
     \/ \E args \in ResolveInputs :
          probe = [fn |-> "resolveConflict", args |-> args, out |-> <<>>, applied |-> FALSE]
     \/ \E args \in {x \in ResolveLocalInputs : x[1][1].timestamp <= x[4]} :
          probe = [fn |-> "resolveLocal", args |-> args, out |-> <<>>, applied |-> FALSE]
     \/ \E args \in DeleteGroupInputs :
          probe = [fn |-> "deleteGroup", args |-> args, out |-> <<>>, applied |-> FALSE]
     \/ \E args \in {x \in DiffInputs :
                        \A c \in {x[1], x[2]} :
                          \A i, j \in 1..Len(c) : Get(c[i], "id") = Get(c[j], "id") => i = j} :
          probe = [fn |-> "calculateDiff", args |-> args, out |-> <<>>, applied |-> FALSE]
     \/ \E args \in ChecksumInputs :
          probe = [fn |-> "calculateChecksum", args |-> args, out |-> <<>>, applied |-> FALSE]
     \/ \E args \in ModeInputs :
          probe = [fn |-> "syncUserData", args |-> args, out |-> <<>>, applied |-> FALSE]

ProbeDetectConflicts ==
  /\ probe.fn = "detectConflicts" /\ ~probe.applied
  /\ probe' = [probe EXCEPT
       !.out = detectConflicts(probe.args[1], probe.args[2], probe.args[3]),
       !.applied = TRUE]
  /\ UNCHANGED <<now, token, user, syncStatus, notified, pendingChanges, storedPending,
                 local, userData, res, temps, ops, pass, lastReturn, handlers>>

ProbeRecordTwice ==
  /\ probe.fn = "recordChange" /\ ~probe.applied
  /\ LET a == probe.args
     IN  probe' = [probe EXCEPT
           !.out = recordChange(recordChange(a[1], a[3], a[4], a[2], a[5]),
                                a[6], a[7], a[2], a[8]),
           !.applied = TRUE]
  /\ UNCHANGED <<now, token, user, syncStatus, notified, pendingChanges, storedPending,
                 local, userData, res, temps, ops, pass, lastReturn, handlers>>

ProbeResolveConflict ==
  /\ probe.fn = "resolveConflict" /\ ~probe.applied
  /\ LET a == probe.args
     IN  probe' = [probe EXCEPT
           !.out = [changes |-> resolveConflictList(a[1], a[2], a[3], a[4]),
                    returned |-> resolveConflictReturns(a[1], a[2])],
           !.applied = TRUE]
  /\ UNCHANGED <<now, token, user, syncStatus, notified, pendingChanges, storedPending,
                 local, userData, res, temps, ops, pass, lastReturn, handlers>>

ProbeResolveLocal ==
  /\ probe.fn = "resolveLocal" /\ ~probe.applied
  /\ LET a == probe.args
         resolved == resolveConflictList(a[1], a[1][1].id, "local", a[4])
     IN  probe' = [probe EXCEPT
           !.out = [reported |-> detectConflicts(a[1], a[2], a[3]),
                    changes |-> resolved,
                    next |-> detectConflicts(resolved, a[2], a[3])],
           !.applied = TRUE]
  /\ UNCHANGED <<now, token, user, syncStatus, notified, pendingChanges, storedPending,
                 local, userData, res, temps, ops, pass, lastReturn, handlers>>

ProbeDeleteGroup ==
  /\ probe.fn = "deleteGroup" /\ ~probe.applied
  /\ LET loc == probe.args[1]
         id == probe.args[2]
         others == SelectSeq(<<"g2">>, LAMBDA g : g \in loc.groups)
     IN  probe' = [probe EXCEPT
           !.out = CASE probe.args[3] = "service" -> serviceDeleteGroup(loc, id)
                     [] probe.args[3] = "store" -> storeDeleteGroup(loc, id)
                     [] OTHER ->
                          applySnapshot(loc,
                            [success |-> TRUE, hasData |-> TRUE,
                             fundHoldings |-> loc.holdings,
                             stockHoldings |-> loc.stockHoldings,
                             hasGroups |-> TRUE, accountGroups |-> others,
                             hasSettings |-> FALSE, settings |-> <<>>], 1),
           !.applied = TRUE]
  /\ UNCHANGED <<now, token, user, syncStatus, notified, pendingChanges, storedPending,
                 local, userData, res, temps, ops, pass, lastReturn, handlers>>

ProbeCalculateDiff ==
  /\ probe.fn = "calculateDiff" /\ ~probe.applied
  /\ probe' = [probe EXCEPT !.out = calculateDiff(probe.args[1], probe.args[2]),
                            !.applied = TRUE]
  /\ UNCHANGED <<now, token, user, syncStatus, notified, pendingChanges, storedPending,
                 local, userData, res, temps, ops, pass, lastReturn, handlers>>

ProbeCalculateChecksum ==
  /\ probe.fn = "calculateChecksum" /\ ~probe.applied
  /\ probe' = [probe EXCEPT !.out = <<calculateChecksum(probe.args[1]),
                                      calculateChecksum(probe.args[2])>>,
                            !.applied = TRUE]
  /\ UNCHANGED <<now, token, user, syncStatus, notified, pendingChanges, storedPending,
                 local, userData, res, temps, ops, pass, lastReturn, handlers>>

\* the two requests are answered in memory-store mode and in
\* persistent-store mode, from a store without a document of the user: out
\* has the two responses to the second request
ProbeSyncUserData ==
  /\ probe.fn = "syncUserData" /\ ~probe.applied
  /\ LET memory == syncUserData(syncUserData(NoDocument, probe.args[1], now).doc,
                                probe.args[2], now)
         stored == syncUserDataStored(
                     syncUserDataStored(NoDocument, probe.args[1], now).doc,
                     probe.args[2], now)
     IN  probe' = [probe EXCEPT !.out = <<memory.res, stored.res>>, !.applied = TRUE]
  /\ UNCHANGED <<now, token, user, syncStatus, notified, pendingChanges, storedPending,
                 local, userData, res, temps, ops, pass, lastReturn, handlers>>

ProbeNext ==
  \/ ProbeSyncUserData
  \/ ProbeDetectConflicts
  \/ ProbeRecordTwice
  \/ ProbeResolveConflict
  \/ ProbeResolveLocal
  \/ ProbeDeleteGroup
  \/ ProbeCalculateDiff
  \/ ProbeCalculateChecksum

ProbeSpec == ProbeInit /\ [][ProbeNext]_vars

(***************************************************************************)
(* Properties                                                              *)
(***************************************************************************)
\* the passes that have a request in flight or a backoff sleep running
Active ==
  {i \in Passes : pass[i].phase \in {"upload_wait", "upload_sleep",
                                      "download_wait", "download_sleep"}}

\* pass i took the step
Stepped(i) == pass'[i] # pass[i] /\ pass[i].phase # "done"

\* C1: after any sequence of recordChange, resolveConflict, forceSync and sync
\* the pending-change list holds at most one entry per holding id
C1_OnePendingPerId ==
  \A i, j \in 1..Len(pendingChanges) :
    pendingChanges[i].id = pendingChanges[j].id => i = j

\* two ids are pending, one of them a CREATE that absorbed a later UPDATE
C1_Witness ==
  /\ Len(pendingChanges) = 2
  /\ \E i \in 1..2 :
       /\ pendingChanges[i].operation = CREATE
       /\ Get(pendingChanges[i].data, "share") = 2000

\* C2: sync() called while the status is SYNCING or while no credential is
\* stored returns success:false at once and changes nothing: the status and
\* the Change Log stay as they are, no listener is notified, no pass starts
\* and no pass issues a request
C2_RejectedSyncChangesNothing ==
  [][(lastReturn'.via = "sync" /\ (~token \/ syncStatus = SYNCING)) =>
       /\ ~lastReturn'.result.success
       /\ lastReturn'.result.message \in {MsgLoginFirst, MsgInProgress}
       /\ syncStatus' = syncStatus
       /\ notified' = <<>>
       /\ pendingChanges' = pendingChanges
       /\ storedPending' = storedPending
       /\ pass' = Forget(pass)]_vars

\* a sync() was turned away while a pass had a request in flight
C2_Witness ==
  /\ lastReturn.via = "sync"
  /\ lastReturn.result.message = MsgInProgress
  /\ Active # {}

\* C3: at every moment at most one sync pass is active, also after an earlier
\* sync() returned with a timeout failure
C3_OnePassActive == Cardinality(Active) <= 1

\* C4: a pass whose sync() failed on the deadline makes no later modification
\* to the Change Log or the sync status, notifies no listener and issues no
\* further request
C4_TimedOutPassIsInert ==
  [][\A i \in Late :
       Stepped(i) =>
         /\ pendingChanges' = pendingChanges
         /\ syncStatus' = syncStatus
         /\ notified' = <<>>
         /\ pass'[i].phase \notin {"upload_wait", "download_wait"}]_vars

\* C5: a change recorded while the upload request awaits its response is not
\* dropped unsent: when the upload succeeds, every pending change that was not
\* in the request is still in the Change Log
C5_NoChangeDroppedUnsent ==
  [][\A i \in Passes :
       (pass[i].phase = "upload_wait" /\ pass'[i].upload = "ok") =>
         \A k \in 1..Len(pendingChanges) :
           (\A m \in 1..Len(pass[i].request.changes) :
              pass[i].request.changes[m] # pendingChanges[k])
           => \E n \in 1..Len(pendingChanges') :
                pendingChanges'[n] = pendingChanges[k]]_vars

\* the moves of the status cycle IDLE -> SYNCING -> {SUCCESS, ERROR, CONFLICT} -> IDLE
StatusMove(a, b) ==
  \/ a = b
  \/ a = IDLE /\ b = SYNCING
  \/ a = SYNCING /\ b \in {SUCCESS, ERROR, CONFLICT}
  \/ a \in {SUCCESS, ERROR, CONFLICT} /\ b = IDLE

\* C6: the status only moves along IDLE -> SYNCING -> {SUCCESS, ERROR,
\* CONFLICT} -> IDLE: every status a step sets follows the one before it
C6_StatusCycle ==
  [][\A k \in 1..Len(notified') :
       StatusMove((<<syncStatus>> \o notified')[k], notified'[k])]_vars

Backoff(k) == IF k = 1 THEN 1000 ELSE 2000

\* an error after which a request may be repeated
Transient(error) ==
  \/ error = NetworkError
  \/ error.status \in {429, 500, 502, 503, 504}

C9_AuthErrorEndsPass ==
  \A i \in Passes :
    pass[i].upload = "unauthorized" =>
      /\ pass[i].phase = "done"
      /\ ~pass[i].result.success
      /\ ~token
      /\ ~user

\* C10: when the server answers an upload with a non-empty conflict list,
\* sync() ends with status CONFLICT and a result that carries those conflicts
C10_UploadConflictsReported ==
  \A i \in Passes :
    (pass[i].phase = "done" /\ pass[i].srvConflicts # {}) =>
      /\ syncStatus = CONFLICT
      /\ {pass[i].result.conflicts[k] : k \in 1..Len(pass[i].result.conflicts)}
           = pass[i].srvConflicts

ConflictsOf(conflicts, id) == {i \in 1..Len(conflicts) : conflicts[i].id = id}

\* the records of a snapshot that carry id, in its fund or its stock holdings
SnapshotRecordsOf(args, id) ==
  {r \in {args[2][i] : i \in 1..Len(args[2])} \cup {args[3][i] : i \in 1..Len(args[3])} :
     Get(r, "id") = id}

\* the time a record of the snapshot was last modified: updatedAt, else the
\* time it was added
LastModified(r) ==
  IF HasKey(r, "updatedAt") THEN Get(r, "updatedAt")
  ELSE IF HasKey(r, "addTime") THEN Get(r, "addTime") ELSE 0

\* C12: for a pending change whose id exists in the server snapshot the
\* detector emits exactly one conflict for that id if the operation is UPDATE
\* or DELETE and the time the server record was last modified is strictly
\* greater than the timestamp of the change, and no conflict otherwise: a
\* CREATE never conflicts, an equal or older server time yields none.
C12_StaleIffServerNewer ==
  (probe.fn = "detectConflicts" /\ probe.applied) =>
    \A k \in 1..Len(probe.args[1]) :
      LET change == probe.args[1][k]
      IN  \A r \in SnapshotRecordsOf(probe.args, change.id) :
            Cardinality(ConflictsOf(probe.out, change.id)) =
              IF change.operation \in {UPDATE, DELETE} /\ LastModified(r) > change.timestamp
              THEN 1 ELSE 0

C12_Witness ==
  /\ probe.fn = "detectConflicts" /\ probe.applied
  /\ Len(probe.args[1]) = 1
  /\ probe.args[1][1].operation = DELETE
  /\ probe.args[1][1].timestamp = 1
  /\ \E r \in SnapshotRecordsOf(probe.args, "h1") :
       ~HasKey(r, "updatedAt") /\ HasKey(r, "addTime") /\ Get(r, "addTime") = 2
  /\ Len(probe.out) = 1
  /\ probe.out[1].id = "h1"

\* C13: a pending UPDATE whose id is in neither the fund nor the stock
\* holdings of the server snapshot produces exactly one conflict, whose
\* serverData is null; a CREATE or DELETE of an absent id produces none.
C13_MissingRecordConflict ==
  (probe.fn = "detectConflicts" /\ probe.applied) =>
    \A k \in 1..Len(probe.args[1]) :
      LET change == probe.args[1][k]
          mine == ConflictsOf(probe.out, change.id)
      IN  SnapshotRecordsOf(probe.args, change.id) = {} =>
            IF change.operation = UPDATE
            THEN /\ Cardinality(mine) = 1
                 /\ \A i \in mine : probe.out[i].serverData = NoServerData
            ELSE mine = {}

C13_Witness ==
  /\ probe.fn = "detectConflicts" /\ probe.applied
  /\ probe.args[2] = <<>> /\ probe.args[3] = <<>>
  /\ Len(probe.args[1]) = 1
  /\ probe.args[1][1].operation = UPDATE
  /\ Len(probe.out) = 1
  /\ probe.out[1].id = "h1"
  /\ probe.out[1].serverData = NoServerData


\* the records of a list of holdings that carry id
RecordsOf(holdings, id) ==
  {i \in 1..Len(holdings) : Get(holdings[i], "id") = id}

\* C14: when the reconciler of the server finds a conflict and force is not
\* set, it answers success:false with the conflicts and requiresResolution:
\* true, and the document of the user is exactly what it was before.
C14_ConflictLeavesDocument ==
  [][(/\ res' # res
      /\ res'.conflicts # <<>>
      /\ ~res'.req.force)
     => /\ ~res'.success
        /\ res'.requiresResolution
        /\ \A k \in 1..Len(res'.conflicts) :
             \E m \in 1..Len(res'.req.changes) :
               res'.req.changes[m].id = res'.conflicts[k].id
        /\ userData' = userData]_vars

\* a request that carried groups and settings was refused for a conflict
C14_Witness ==
  /\ res.answered
  /\ ~res.success
  /\ res.requiresResolution
  /\ Len(res.conflicts) = 1
  /\ ~res.req.force
  /\ res.req.accountGroups # <<>>
  /\ res.req.changes = <<RequestChange("h1", UPDATE, 1, UpdateData("h1"))>>
  /\ Len(userData.fundHoldings) = 1
  /\ Get(userData.fundHoldings[1], "id") = "h1"
  /\ Get(userData.fundHoldings[1], "updatedAt") = 2
  /\ Get(userData.fundHoldings[1], "share") = 1000

\* C15: a request whose changes are CREATEs of one id that the reconciler
\* applies, the same CREATE twice or after an earlier request created the id,
\* leaves exactly one record with that id; it has the values of the first
\* application: the record there was before, else the payload and the
\* timestamp of the first CREATE.
C15_CreateFirstWriteWins ==
  [][(/\ res' # res
      /\ res'.req.changes # <<>>
      /\ \A m \in 1..Len(res'.req.changes) :
           /\ res'.req.changes[m].operation = CREATE
           /\ res'.req.changes[m].id = res'.req.changes[1].id
           /\ IsFundChange(res'.req.changes[m]))
     => LET first == res'.req.changes[1]
            before == RecordsOf(userData.fundHoldings, first.id)
            after == RecordsOf(userData'.fundHoldings, first.id)
        IN  /\ res'.success
            /\ Cardinality(after) = 1
            /\ \A j \in after :
                 LET rec == userData'.fundHoldings[j]
                 IN  IF before # {}
                     THEN \A b \in before : rec = userData.fundHoldings[b]
                     ELSE /\ \A n \in 1..Len(first.data) :
                               Get(rec, first.data[n][1]) = first.data[n][2]
                          /\ Get(rec, "createdAt") = first.timestamp
                          /\ Get(rec, "updatedAt") = first.timestamp]_vars

\* two CREATEs of one request differ; the record has the values of the first
C15_Witness ==
  /\ res.success
  /\ Len(res.req.changes) = 2
  /\ res.req.changes[1].operation = CREATE
  /\ res.req.changes[2].operation = CREATE
  /\ res.req.changes[1].timestamp = 2
  /\ res.req.changes[2].timestamp = 1
  /\ res.req.changes[1].data = UpdateData("h1")
  /\ res.req.changes[2].data = CreateData("h1")
  /\ Len(userData.fundHoldings) = 1
  /\ Get(userData.fundHoldings[1], "createdAt") = 2
  /\ Get(userData.fundHoldings[1], "share") = 2000

\* C16: an UPDATE of an id the server has takes effect exactly when the
\* updatedAt of the record is not strictly newer than the timestamp of the
\* change; an UPDATE whose timestamp equals the updatedAt is applied.
C16_UpdateAppliedUnlessServerNewer ==
  [][(/\ res' # res
      /\ res'.success
      /\ Len(res'.req.changes) = 1
      /\ res'.req.changes[1].operation = UPDATE
      /\ IsFundChange(res'.req.changes[1])
      /\ RecordsOf(userData.fundHoldings, res'.req.changes[1].id) # {})
     => LET change == res'.req.changes[1]
        IN  \A b \in RecordsOf(userData.fundHoldings, change.id) :
              LET existing == userData.fundHoldings[b]
                  applied ==
                    \E j \in RecordsOf(userData'.fundHoldings, change.id) :
                      LET rec == userData'.fundHoldings[j]
                      IN  /\ Get(rec, "updatedAt") = change.timestamp
                          /\ \A n \in 1..Len(change.data) :
                               Get(rec, change.data[n][1]) = change.data[n][2]
              IN  applied <=> ~(Get(existing, "updatedAt") > change.timestamp)]_vars

\* C17: after a request answered success:true the id of each of its DELETE
\* changes is in neither the fund nor the stock holdings, of the document and
\* of the data returned, whatever the timestamps and the payloads (a DELETE
\* that a later change of the same request follows is left aside).
C17_DeleteRemovesId ==
  [][(res' # res /\ res'.success)
     => \A m \in 1..Len(res'.req.changes) :
          (/\ res'.req.changes[m].operation = DELETE
           /\ \A n \in (m + 1)..Len(res'.req.changes) :
                res'.req.changes[n].id # res'.req.changes[m].id)
          => LET id == res'.req.changes[m].id
             IN  /\ RecordsOf(userData'.fundHoldings, id) = {}
                 /\ RecordsOf(userData'.stockHoldings, id) = {}
                 /\ RecordsOf(res'.data.fundHoldings, id) = {}
                 /\ RecordsOf(res'.data.stockHoldings, id) = {}]_vars


\* the places of the pending changes of a list that carry id
ChangesOf(changes, id) == {i \in 1..Len(changes) : changes[i].id = id}

\* the keys of a payload
KeysOf(data) == {data[n][1] : n \in 1..Len(data)}

\* C18: recording UPDATE and then UPDATE for one id leaves exactly one pending
\* change for that id; its payload is the shallow merge of the two payloads,
\* the later values winning, and its checksum is calculateChecksum of that
\* merged payload.
C18_UpdatesCoalesce ==
  (/\ probe.fn = "recordChange" /\ probe.applied
   /\ probe.args[3] = UPDATE /\ probe.args[6] = UPDATE)
  => LET id == probe.args[2]
         data1 == probe.args[4]
         data2 == probe.args[7]
     IN  /\ Cardinality(ChangesOf(probe.out, id)) = 1
         /\ \A i \in ChangesOf(probe.out, id) :
              LET entry == probe.out[i]
              IN  /\ KeysOf(entry.data) = KeysOf(data1) \cup KeysOf(data2)
                  /\ Len(entry.data) = Cardinality(KeysOf(entry.data))
                  /\ \A k \in KeysOf(entry.data) :
                       Get(entry.data, k) = IF k \in KeysOf(data2)
                                            THEN Get(data2, k) ELSE Get(data1, k)
                  /\ entry.checksum = calculateChecksum(entry.data)

\* two UPDATEs with different payloads were recorded after a change of
\* another id
C18_Witness ==
  /\ probe.fn = "recordChange" /\ probe.applied
  /\ probe.args[3] = UPDATE /\ probe.args[6] = UPDATE
  /\ probe.args[4] = UpdateData("h1")
  /\ probe.args[7] = <<<<"share", 1000>>, <<"groupId", "g1">>, <<"id", "h1">>>>
  /\ Len(probe.out) = 2
  /\ probe.out[2].id = "h1"
  /\ Get(probe.out[2].data, "share") = 1000
  /\ Get(probe.out[2].data, "fundCode") = "000001"
  /\ Get(probe.out[2].data, "groupId") = "g1"
  /\ probe.out[2].checksum # calculateChecksum(probe.args[4])
  /\ probe.out[2].checksum # calculateChecksum(probe.args[7])

\* C19: recording UPDATE or CREATE and then DELETE for one id leaves exactly
\* one pending change for that id; its operation is DELETE and its payload is
\* the payload of the DELETE, with no field of the earlier payload.
C19_DeleteReplaces ==
  (/\ probe.fn = "recordChange" /\ probe.applied
   /\ probe.args[3] \in {UPDATE, CREATE} /\ probe.args[6] = DELETE)
  => /\ Cardinality(ChangesOf(probe.out, probe.args[2])) = 1
     /\ \A i \in ChangesOf(probe.out, probe.args[2]) :
          /\ probe.out[i].operation = DELETE
          /\ probe.out[i].data = probe.args[7]

\* a CREATE with a full payload was followed by a DELETE with payload {id}
C19_Witness ==
  /\ probe.fn = "recordChange" /\ probe.applied
  /\ probe.args[3] = CREATE /\ probe.args[6] = DELETE
  /\ probe.args[4] = CreateData("h1")
  /\ probe.args[7] = DeleteData("h1")
  /\ Len(probe.out) = 1
  /\ probe.out[1].operation = DELETE
  /\ ~HasKey(probe.out[1].data, "fundCode")


\* C20 as claimed: when forceSync() returns, at once because sync() refused
\* or when the pass it awaits ends, the Change Log is empty.
C20_NothingPendingAfterForceSync ==
  /\ (lastReturn.via = "forceSync" /\ lastReturn.result # NoResult)
       => pendingChanges = <<>>
  /\ \A i \in Passes :
       (pass[i].via = "forceSync" /\ pass[i].phase = "done")
         => pendingChanges = <<>>

\* C20: forceSync() empties the Change Log and its stored copy before its
\* sync starts, whatever they held, and no step of the pass it awaits adds a
\* change: when it returns, the Change Log holds only changes that were
\* recorded while that pass ran.
C20_ForceSyncEmptiesLog ==
  [][/\ lastReturn'.via = "forceSync"
          => pendingChanges' = <<>> /\ storedPending' = <<>>
     /\ \A i \in Passes :
          (Stepped(i) /\ pass[i].via = "forceSync")
            => \A m \in 1..Len(pendingChanges') :
                 \E k \in 1..Len(pendingChanges) :
                   pendingChanges[k] = pendingChanges'[m]]_vars

\* the pass of a forceSync() ended; a change recorded while it ran is pending
C20_Witness ==
  \E i \in Passes :
    /\ pass[i].via = "forceSync"
    /\ pass[i].phase = "done"
    /\ pass[i].result.success
    /\ Len(pendingChanges) = 1


\* C21: resolveConflict(id, 'server') removes exactly the pending change with
\* that id, leaves every other pending change as it was and returns true;
\* when no pending change has the id, resolveConflict returns false for every
\* strategy and the Change Log is unchanged.
C21_ServerStrategyRemovesOne ==
  (probe.fn = "resolveConflict" /\ probe.applied) =>
    LET changes == probe.args[1]
        conflictId == probe.args[2]
    IN  IF ChangesOf(changes, conflictId) = {}
        THEN ~probe.out.returned /\ probe.out.changes = changes
        ELSE probe.args[3] = "server" =>
               /\ probe.out.returned
               /\ probe.out.changes = SelectSeq(changes, LAMBDA c : c.id # conflictId)

\* the first of two pending changes was resolved in favour of the server
C21_Witness ==
  /\ probe.fn = "resolveConflict" /\ probe.applied
  /\ probe.args[3] = "server"
  /\ probe.args[2] = "h1"
  /\ Len(probe.args[1]) = 2
  /\ probe.args[1][1].id = "h1"
  /\ probe.out.returned
  /\ probe.out.changes = <<probe.args[1][2]>>


\* C22: after resolveConflict(id, 'local') on a change that a detection pass
\* reported as a conflict, the next detection pass against the same server
\* state reports no conflict for that id (the clock of the client is not
\* behind the time of the server record).
C22_LocalWinsNextDetection ==
  (probe.fn = "resolveLocal" /\ probe.applied) =>
    LET id == probe.args[1][1].id
    IN  (/\ ConflictsOf(probe.out.reported, id) # {}
         /\ \A r \in SnapshotRecordsOf(probe.args, id) : LastModified(r) <= probe.args[4])
        => ConflictsOf(probe.out.next, id) = {}


\* the hook's resolveConflict found the change and went on to sync()
HookResolved ==
  /\ ops' = ops + 1
  /\ lastReturn'.via = "resolveConflict"

\* C23: resolveConflict(conflictId, useLocal) of the hook resolves the
\* conflict in the Change Log before it re-syncs: the pending change of
\* conflictId is removed (useLocal = false) or its timestamp is refreshed to
\* the current time (useLocal = true).
C23_HookResolvesInLog ==
  [][HookResolved =>
       \E k \in 1..Len(pendingChanges) :
         \/ pendingChanges' = RemoveAt(pendingChanges, k)
         \/ pendingChanges' = [pendingChanges EXCEPT ![k].timestamp = now]]_vars


\* every server record has exactly one local record with its id, share and
\* cost price, and there is no other local record
SameHoldings(localHoldings, serverHoldings) ==
  /\ Len(localHoldings) = Len(serverHoldings)
  /\ \A n \in 1..Len(serverHoldings) :
       \E m \in 1..Len(localHoldings) :
         /\ Field(localHoldings[m], "id") = Field(serverHoldings[n], "id")
         /\ Field(localHoldings[m], "share") = Field(serverHoldings[n], "share")
         /\ Field(localHoldings[m], "costPrice") = Field(serverHoldings[n], "costPrice")

\* pass i ends in this step with SUCCESS, on the answer to its download
DownloadSucceeded(i) ==
  /\ pass[i].phase = "download_wait"
  /\ pass'[i].phase = "done"
  /\ pass'[i].result.success

\* C24: after a pass that ends in SUCCESS with the download phase run, the
\* local fund holdings are exactly the fund holdings of the server snapshot
\* it downloaded: same ids, same share and cost price, no other record (a
\* pass with force, which ends in SUCCESS on a failed download too, is left
\* aside).
C24_LocalHoldingsAreServers ==
  [][\A i \in Passes :
       (DownloadSucceeded(i) /\ ~pass[i].force)
       => \E body \in DownloadBodies :
            /\ body.success /\ body.hasData
            /\ SameHoldings(local'.holdings, body.fundHoldings)]_vars


\* the sets of account-group ids the snapshots of the server can carry
SnapshotGroupIds ==
  {{body.accountGroups[n] : n \in 1..Len(body.accountGroups)} :
     body \in {b \in DownloadBodies : b.success /\ b.hasData /\ b.hasGroups}}

\* C25: after a successful download phase the set of the ids of the local
\* account groups is the set of the ids of the account groups of the server
\* snapshot (the local set is as it was if the snapshot carries no groups).
C25_LocalGroupsAreServers ==
  [][\A i \in Passes :
       (DownloadSucceeded(i) /\ ~pass[i].force)
       => \/ local'.groups \in SnapshotGroupIds
          \/ local'.groups = local.groups]_vars


\* the ids of a list of holdings
HoldingIds(holdings) == {Get(holdings[n], "id") : n \in 1..Len(holdings)}

\* C26: deleting an account group g, by a direct call or by the group
\* reconciliation of the sync, leaves no fund or stock holding that refers to
\* g and deletes no holding: the ids of the holdings are the same as before.
C26_DeleteGroupClearsReferences ==
  (probe.fn = "deleteGroup" /\ probe.applied) =>
    LET before == probe.args[1]
        g == probe.args[2]
    IN  /\ g \notin probe.out.groups
        /\ \A n \in 1..Len(probe.out.holdings) :
             Field(probe.out.holdings[n], "groupId") # <<g>>
        /\ \A n \in 1..Len(probe.out.stockHoldings) :
             Field(probe.out.stockHoldings[n], "groupId") # <<g>>
        /\ HoldingIds(probe.out.holdings) = HoldingIds(before.holdings)
        /\ HoldingIds(probe.out.stockHoldings) = HoldingIds(before.stockHoldings)


\* the elements of a list
Elements(list) == {list[n] : n \in 1..Len(list)}

\* C27: calculateDiff puts a server record in toCreate exactly when its id is
\* absent locally, in toUpdate exactly when its id is present locally and the
\* two checksums differ, and an id in toDelete exactly when it is local and
\* absent from the server; no id is in more than one of the three lists, and
\* collections whose records are pairwise checksum-equal give three empty
\* lists.
C27_DiffIsCorrect ==
  (probe.fn = "calculateDiff" /\ probe.applied) =>
    LET localData == probe.args[1]
        serverData == probe.args[2]
        localIds == HoldingIds(localData)
        serverIds == HoldingIds(serverData)
        differs(r) == \E l \in Elements(localData) :
                        /\ Get(l, "id") = Get(r, "id")
                        /\ calculateChecksum(l) # calculateChecksum(r)
        diff == probe.out
    IN  /\ Elements(diff.toCreate) =
             {r \in Elements(serverData) : Get(r, "id") \notin localIds}
        /\ Elements(diff.toUpdate) =
             {r \in Elements(serverData) : Get(r, "id") \in localIds /\ differs(r)}
        /\ Elements(diff.toDelete) = localIds \ serverIds
        /\ Len(diff.toCreate) = Cardinality(Elements(diff.toCreate))
        /\ Len(diff.toUpdate) = Cardinality(Elements(diff.toUpdate))
        /\ Len(diff.toDelete) = Cardinality(Elements(diff.toDelete))
        /\ HoldingIds(diff.toCreate) \cap HoldingIds(diff.toUpdate) = {}
        /\ HoldingIds(diff.toCreate) \cap Elements(diff.toDelete) = {}
        /\ HoldingIds(diff.toUpdate) \cap Elements(diff.toDelete) = {}
        /\ (localIds = serverIds /\ \A r \in Elements(serverData) : ~differs(r))
             => diff = [toCreate |-> <<>>, toUpdate |-> <<>>, toDelete |-> <<>>]

\* local = [{id: h1, share: 1000}], server = [{id: h1, share: 2000},
\* {id: h2, share: 1000}]: h2 is created, h1 updated, nothing deleted
C27_Witness ==
  /\ probe.fn = "calculateDiff" /\ probe.applied
  /\ probe.args[1] = <<<<<<"id", "h1">>, <<"share", 1000>>>>>>
  /\ probe.args[2] = <<<<<<"id", "h1">>, <<"share", 2000>>>>,
                       <<<<"id", "h2">>, <<"share", 1000>>>>>>
  /\ probe.out.toCreate = <<<<<<"id", "h2">>, <<"share", 1000>>>>>>
  /\ probe.out.toUpdate = <<<<<<"id", "h1">>, <<"share", 2000>>>>>>
  /\ probe.out.toDelete = <<>>

\* C28: calculateChecksum gives the same string for two records that have
\* the same field names with the same values, whatever the order in which
\* the fields were inserted.
C28_ChecksumIgnoresKeyOrder ==
  (probe.fn = "calculateChecksum" /\ probe.applied) =>
    (Elements(probe.args[1]) = Elements(probe.args[2])
       => probe.out[1] = probe.out[2])


\* the ids of the holdings that the request of handler k creates and that
\* the request of the other handler does not delete
CreatedBy(k, other) ==
  {c.id : c \in {x \in Elements(handlers[k].req.changes) : x.operation = CREATE}}
    \ {c.id : c \in {x \in Elements(handlers[other].req.changes) : x.operation = DELETE}}

\* both requests were answered success: true, and a holding that the request
\* of handler k created is not in the document
LostChange(k, other) ==
  /\ handlers[k].phase = "answered" /\ handlers[k].success
  /\ handlers[other].phase = "answered" /\ handlers[other].success
  /\ \E id \in CreatedBy(k, other) : id \notin HoldingIds(userData.fundHoldings)

C30_StoredIsInMemory ==
  /\ storedPending = pendingChanges
  /\ loadPendingChanges(storedPending) = pendingChanges

\* an upload has just succeeded and emptied the list, in memory and stored
C30_Witness ==
  /\ \E i \in Passes : pass[i].phase = "done" /\ pass[i].upload = "ok"
                       /\ pass[i].requests > 0
  /\ pendingChanges = <<>>
  /\ storedPending = <<>>


\* the passes that start in this step
Started == {i \in Passes : pass'[i] # Forget(pass)[i]}

\* C31: autoSync issues no request and changes neither the status nor the
\* Change Log when no credential is stored or the Change Log is empty;
\* otherwise it makes exactly one sync() call with the default options: the
\* call is turned away because a pass is in progress, or it starts one pass
\* that uploads, downloads and does not force.
C31_AutoSyncGuards ==
  [][(lastReturn'.via = "autoSync") =>
       IF ~token \/ pendingChanges = <<>>
       THEN /\ Started = {}
            /\ notified' = <<>>
            /\ syncStatus' = syncStatus
            /\ pendingChanges' = pendingChanges
            /\ storedPending' = storedPending
            /\ lastReturn'.result = NoResult
       ELSE /\ pendingChanges' = pendingChanges
            /\ IF syncStatus = SYNCING
               THEN /\ Started = {}
                    /\ syncStatus' = syncStatus
                    /\ lastReturn'.result = SyncResult(FALSE, MsgInProgress, <<>>)
               ELSE /\ Cardinality(Started) = 1
                    /\ \A i \in Started :
                         /\ pass'[i].via = "autoSync"
                         /\ pass'[i].upload # "skipped"
                         /\ ~pass'[i].skipDownload
                         /\ ~pass'[i].force
                         /\ pass'[i].requests = 1]_vars

\* autoSync has just sent the upload request of a pass
C31_Witness ==
  /\ lastReturn.via = "autoSync"
  /\ \E i \in Passes : pass[i].via = "autoSync" /\ pass[i].phase = "upload_wait"
  /\ pendingChanges # <<>>


\* in how many of the two partitions of syncUserData a change is
Partitions(c) ==
  Len(SelectSeq(<<c>>, IsFundChange)) + Len(SelectSeq(<<c>>, IsStockChange))

\* C32: the reconciler assigns every change of a request it answers with
\* success: true to exactly one of the fund and stock partitions: none is
\* left out of both, none is in both.
C32_OnePartitionPerChange ==
  (res.answered /\ res.success) =>
    \A c \in Elements(res.req.changes) : Partitions(c) = 1


\* C33: for a list of changes and a set of server holdings, the detector of
\* the server reports conflicts for the same set of change ids as the
\* detector of the client run on the same changes and holdings.
C33_DetectorsAgree ==
  (probe.fn = "detectConflicts" /\ probe.applied /\ probe.args[3] = <<>>) =>
    {c.id : c \in Elements(probe.out)}
      = {c.id : c \in Elements(serverDetectConflicts(probe.args[2], probe.args[1]))}


\* C34: every sync() call that sets the status to SYNCING returns a result,
\* and the status does not stay SYNCING for ever: whenever it is SYNCING it
\* is SUCCESS, ERROR or CONFLICT at some later time, even if a request to
\* the server is never answered.
C34_SyncingEnds ==
  /\ \A i \in Passes : (pass[i].caller = "waiting") ~> (pass[i].caller # "waiting")
  /\ (syncStatus = SYNCING) ~> (syncStatus \in {SUCCESS, ERROR, CONFLICT})


\* the server answered success: true to a request with a DELETE of id
DeleteUploaded(id) ==
  /\ res.answered /\ res.success
  /\ \E c \in Elements(res.req.changes) :
       c.id = id /\ c.operation = DELETE /\ c.data = DeleteData(id)

\* C35: once a DELETE recorded the way the stores record it (payload {id})
\* was uploaded and a pass has ended in SUCCESS, the holding is absent from
\* the document of the server and from the local table, and the download has
\* not created a holding in the local table again.
C35_DeletedStaysDeleted ==
  \A i \in Passes, id \in Ids :
    (pass[i].phase = "done" /\ pass[i].result.success /\ DeleteUploaded(id)) =>
      /\ id \notin HoldingIds(userData.fundHoldings)
      /\ id \notin HoldingIds(local.holdings)
      /\ local.holdings = <<>>


\* C36: in a pass with the default options during which no change is
\* recorded, the Change Log is empty whenever the download phase runs (the
\* upload emptied it, or its failure ended the pass), so the conflict
\* detector of the download finds nothing and the status is never CONFLICT.
C36_DownloadSeesEmptyLog ==
  /\ \A i \in Passes :
       pass[i].phase \in {"download_wait", "download_sleep"} => pendingChanges = <<>>
  /\ syncStatus # CONFLICT
  /\ \A i \in Passes : pass[i].phase = "done" => pass[i].result.conflicts = <<>>

\* the upload of a recorded change succeeded and the download request of the
\* pass is pending
C36_Witness ==
  /\ \E i \in Passes : pass[i].phase = "download_wait" /\ pass[i].upload = "ok"
  /\ pendingChanges = <<>>
  /\ ops = 2
  /\ temps = 0
  /\ local.holdings # <<>>
  /\ ~(\E i \in Passes : pass[i].phase = "done")
  /\ Len(notified) = 1


\* C37: for the same sequence of requests of one user the reconciler gives
\* the same conflicts and the same holdings in memory-store mode and in
\* persistent-store mode: the stamps applyChanges wrote on a holding are
\* there when the next request loads the document.
C37_ModesAgree ==
  (probe.fn = "syncUserData" /\ probe.applied) =>
    /\ probe.out[1].success = probe.out[2].success
    /\ {c.id : c \in Elements(probe.out[1].conflicts)}
         = {c.id : c \in Elements(probe.out[2].conflicts)}
    /\ {<<Get(h, "id"), Field(h, "share")>> : h \in Elements(probe.out[1].data.fundHoldings)}
         = {<<Get(h, "id"), Field(h, "share")>> :
              h \in Elements(probe.out[2].data.fundHoldings)}


\* the request answered in this step has force set and the UPDATE c of a
\* fund record whose updatedAt is greater than the timestamp of c
ForcedStaleUpdate(c) ==
  /\ res' # res
  /\ res'.req.force
  /\ c \in Elements(res'.req.changes)
  /\ c.operation = UPDATE
  /\ IsFundChange(c)
  /\ MapHas(userData.fundHoldings, c.id)
  /\ Truthy(MapGet(userData.fundHoldings, c.id), "updatedAt")
  /\ Get(MapGet(userData.fundHoldings, c.id), "updatedAt") > c.timestamp

C39_OperationKeptUnlessDelete ==
  (/\ probe.fn = "recordChange" /\ probe.applied)
  => LET a == probe.args
     IN  /\ ChangesOf(probe.out, a[2]) = {Len(a[1]) + 1}
         /\ \A i \in ChangesOf(probe.out, a[2]) :
              /\ probe.out[i].operation = IF a[6] = DELETE THEN DELETE ELSE a[3]
              /\ a[6] # DELETE =>
                   /\ probe.out[i].data = Spread(a[4], a[7])
                   /\ probe.out[i].timestamp = a[8]
                   /\ probe.out[i].checksum = calculateChecksum(probe.out[i].data)

\* an UPDATE was recorded for an id whose pending entry is a DELETE, and the
\* entry is still a DELETE, with the merged payload and the later timestamp
C39_Witness ==
  /\ probe.fn = "recordChange" /\ probe.applied
  /\ probe.args[3] = DELETE /\ probe.args[6] = UPDATE
  /\ probe.args[4] = DeleteData("h1")
  /\ probe.args[7] = UpdateData("h1")
  /\ probe.args[5] = 1 /\ probe.args[8] = 2
  /\ Len(probe.out) = 1
  /\ probe.out[1].operation = DELETE
  /\ probe.out[1].timestamp = 2
  /\ HasKey(probe.out[1].data, "share")

\* sync() refused the call of the forceSync() that returned in this step
Rejected(ret) ==
  /\ ret.via = "forceSync"
  /\ ~ret.result.success
  /\ ret.result.message \in {MsgLoginFirst, MsgInProgress}

\* C40: a forceSync() whose sync() is rejected, because no credential is
\* stored or because a pass is SYNCING, has emptied the Change Log and stored
\* the empty list all the same, whatever the log held: after the step the
\* log and its stored copy are empty, a reload of the stored copy gives no
\* change, no pass was started and the status is as it was. And sync()
\* rejects the call exactly when there is no credential or a pass is SYNCING.
C40_RejectedForceSyncStillEmpties ==
  [][/\ Rejected(lastReturn') =>
          /\ ~token \/ syncStatus = SYNCING
          /\ pendingChanges' = <<>>
          /\ storedPending' = <<>>
          /\ loadPendingChanges(storedPending') = <<>>
          /\ syncStatus' = syncStatus
          /\ pass' = Forget(pass)
     /\ (lastReturn'.via = "forceSync" /\ (~token \/ syncStatus = SYNCING))
          => Rejected(lastReturn')]_vars

\* forceSync() was rejected while the upload of a pass is in flight: the
\* change that request carries was in the Change Log, and the log is empty
C40_Witness ==
  /\ Rejected(lastReturn)
  /\ lastReturn.result.message = MsgInProgress
  /\ syncStatus = SYNCING
  /\ pendingChanges = <<>> /\ storedPending = <<>>
  /\ \E i \in Passes :
       /\ pass[i].phase = "upload_wait"
       /\ pass[i].via = "sync"
       /\ Len(pass[i].request.changes) = 1

====
